---- MODULE Spec2Model ----
(***************************************************************************)
(* Model of the blog back-end: the CASL rule sets of abilities.ts, the JWT *)
(* utilities of utils/jwt, the authenticate middleware, the                *)
(* checkPermission guard and the admin role update.                        *)
(***************************************************************************)
EXTENDS Integers, Sequences, FiniteSets, TLC

(***************************************************************************)
(* Bounds of the model.                                                    *)
(***************************************************************************)
MaxUsers == 2

MaxDocs == 2

\* tokens are issued at the instants 0..MaxIssueTime
MaxIssueTime == 0

\* comments ever created
MaxComments == 2

\* notifications ever created
MaxNotifications == 2

\* replies ever created
MaxReplies == 1

\* registration requests in flight at once
MaxRegistrations == 2

UserIds == 1..MaxUsers

DocIds == 1..MaxDocs

CommentIds == 1..MaxComments

ReplyIds == 1..MaxReplies

NotificationIds == 1..MaxNotifications

(***************************************************************************)
(* Identifiers.  A Mongo ObjectId and its 24-hex string are different      *)
(* values; toString / String() turns the first into the second.            *)
(***************************************************************************)
NoId == [t |-> "none", v |-> 0]

Oid(n) == [t |-> "oid", v |-> n]

Str(n) == [t |-> "str", v |-> n]

\* Types.ObjectId.isValid: an ObjectId instance or a 24-hex string
IsValidObjectId(x) == x.t \in {"oid", "str"}

\* ObjectId.prototype.toString / String.prototype.toString / String(x)
IdToString(x) == IF x.t = "oid" THEN Str(x.v) ELSE x

(***************************************************************************)
(* Roles and the vocabulary of the policy engine.                          *)
(***************************************************************************)
GUEST == "guest"

WRITER == "writer"

EDITOR == "editor"

ADMIN == "admin"

UserRole == {GUEST, WRITER, EDITOR, ADMIN}

Actions == {"manage", "create", "read", "update", "delete"}

SubjectTypeName == {"Article", "Comment", "User", "Reply", "Statistics", "all"}

\* the role order used by authorize and by the user service
roleHierarchy == [r \in UserRole |->
    CASE r = GUEST -> 0 [] r = WRITER -> 1 [] r = EDITOR -> 2 [] r = ADMIN -> 3]

(***************************************************************************)
(* Subjects handed to the guard: a bare type name, or a document.          *)
(***************************************************************************)
TypeSubject(n) ==
    [kind |-> "string", name |-> n, _id |-> NoId, userId |-> NoId,
     id |-> NoId, baseModelName |-> "absent"]

DocSubject(i, owner, tag, virt) ==
    [kind |-> "object", name |-> "", _id |-> i, userId |-> owner,
     id |-> virt, baseModelName |-> tag]

\* a variant that forgets to convert the owner reference
normalizeDocumentKeepOwner(doc) ==
    IF doc.kind # "object" THEN doc
    ELSE [doc EXCEPT
            !._id = IF doc._id.t # "none" /\ IsValidObjectId(doc._id)
                    THEN IdToString(doc._id) ELSE doc._id,
            !.baseModelName = IF doc.baseModelName # "absent"
                              THEN doc.baseModelName ELSE "Object"]

\* normalizeDocument: string ids, and a baseModelName that falls back to the
\* constructor name of the copy (a spread copy is a plain Object)
normalizeDocument(doc) ==
    IF doc.kind # "object" THEN doc
    ELSE [doc EXCEPT
            !._id = IF doc._id.t # "none" /\ IsValidObjectId(doc._id)
                    THEN IdToString(doc._id) ELSE doc._id,
            !.userId = IF doc.userId.t # "none" /\ IsValidObjectId(doc.userId)
                       THEN IdToString(doc.userId) ELSE doc.userId,
            !.baseModelName = IF doc.baseModelName # "absent"
                              THEN doc.baseModelName ELSE "Object"]

\* getModelName: detectSubjectType of the built ability
getModelName(item) ==
    IF item.kind = "string"
    THEN (IF item.name = "" THEN "all" ELSE item.name)
    ELSE (IF item.baseModelName \in {"absent", ""} THEN "all" ELSE item.baseModelName)

(***************************************************************************)
(* Rules.  can(action, subject[, conditions]) and cannot(action, subject). *)
(***************************************************************************)
NoCond == [present |-> FALSE, userId |-> NoId]

OwnedBy(x) == [present |-> TRUE, userId |-> x]

CanRule(a, s, c) == [inverted |-> FALSE, action |-> a, subject |-> s, conditions |-> c]

CannotRule(a, s) == [inverted |-> TRUE, action |-> a, subject |-> s, conditions |-> NoCond]

GuestRules(user) ==
    << CanRule("read", "Article", NoCond),
       CanRule("read", "Comment", NoCond),
       CanRule("create", "Comment", NoCond),
       CanRule("create", "Reply", NoCond),
       CanRule("update", "Comment", OwnedBy(IdToString(user._id))),
       CanRule("delete", "Comment", OwnedBy(IdToString(user._id))) >>

WriterRules(user) ==
    << CanRule("create", "Article", NoCond),
       CanRule("update", "Article", OwnedBy(IdToString(user._id))),
       CanRule("delete", "Article", OwnedBy(IdToString(user._id))) >>

EditorRules ==
    << CanRule("manage", "Article", NoCond),
       CanRule("manage", "Comment", NoCond),
       CannotRule("delete", "User") >>

AdminRules ==
    << CanRule("manage", "all", NoCond),
       CanRule("read", "Statistics", NoCond) >>

\* a cumulative variant: the admin block is also given to editors
defineAbilitiesForCumulative(user) ==
    GuestRules(user)
    \o (IF user.role = WRITER THEN WriterRules(user) ELSE << >>)
    \o (IF user.role = EDITOR THEN EditorRules ELSE << >>)
    \o (IF user.role \in {EDITOR, ADMIN} THEN AdminRules ELSE << >>)

\* a variant whose editor block lost its grants on Article
defineAbilitiesForNoEditorArticle(user) ==
    GuestRules(user)
    \o (IF user.role = WRITER THEN WriterRules(user) ELSE << >>)
    \o (IF user.role = EDITOR THEN SubSeq(EditorRules, 2, 3) ELSE << >>)
    \o (IF user.role = ADMIN THEN AdminRules ELSE << >>)

\* a variant whose baseline lost the two ownership rules on Comment
defineAbilitiesForNoOwnComment(user) ==
    SubSeq(GuestRules(user), 1, 4)
    \o (IF user.role = WRITER THEN WriterRules(user) ELSE << >>)
    \o (IF user.role = EDITOR THEN EditorRules ELSE << >>)
    \o (IF user.role = ADMIN THEN AdminRules ELSE << >>)

\* a variant whose delete rule on Comment lost its ownership condition
defineAbilitiesForAnyDelete(user) ==
    SubSeq(GuestRules(user), 1, 5) \o << CanRule("delete", "Comment", NoCond) >>
    \o (IF user.role = WRITER THEN WriterRules(user) ELSE << >>)
    \o (IF user.role = EDITOR THEN EditorRules ELSE << >>)
    \o (IF user.role = ADMIN THEN AdminRules ELSE << >>)

\* a variant with ownership rules on Reply, written as those on Comment are
defineAbilitiesForOwnReply(user) ==
    GuestRules(user)
    \o << CanRule("update", "Reply", OwnedBy(IdToString(user._id))),
          CanRule("delete", "Reply", OwnedBy(IdToString(user._id))) >>
    \o (IF user.role = WRITER THEN WriterRules(user) ELSE << >>)
    \o (IF user.role = EDITOR THEN EditorRules ELSE << >>)
    \o (IF user.role = ADMIN THEN AdminRules ELSE << >>)

\* defineAbilitiesFor: the rules in declaration order
defineAbilitiesFor(user) ==
    GuestRules(user)
    \o (IF user.role = WRITER THEN WriterRules(user) ELSE << >>)
    \o (IF user.role = EDITOR THEN EditorRules ELSE << >>)
    \o (IF user.role = ADMIN THEN AdminRules ELSE << >>)

(***************************************************************************)
(* The decision of the built ability (MongoAbility.can).  A rule is        *)
(* relevant when its action is the asked action or 'manage' and its        *)
(* subject is the detected subject type or 'all'.  Conditions are only     *)
(* evaluated against an object: asked about a bare type name, a            *)
(* conditioned allow rule matches and a conditioned deny rule does not.    *)
(* The relevant rule declared last decides.                                *)
(***************************************************************************)
RuleRelevant(r, action, subject) ==
    /\ r.action = action \/ r.action = "manage"
    /\ r.subject = getModelName(subject) \/ r.subject = "all"

matchesConditions(r, subject) ==
    IF ~r.conditions.present THEN TRUE
    ELSE IF subject.kind = "string" THEN ~r.inverted
    ELSE subject.userId = r.conditions.userId

MatchingRules(rules, action, subject) ==
    {i \in 1..Len(rules) :
        RuleRelevant(rules[i], action, subject) /\ matchesConditions(rules[i], subject)}

SetMax(S) == CHOOSE m \in S : \A n \in S : n <= m

SetMin(S) == CHOOSE m \in S : \A n \in S : m <= n

\* a variant that allows when no rule matches
AbilityCanDefaultAllow(rules, action, subject) ==
    LET m == MatchingRules(rules, action, subject)
    IN  IF m = {} THEN TRUE ELSE ~rules[SetMax(m)].inverted

AbilityCan(rules, action, subject) ==
    LET m == MatchingRules(rules, action, subject)
    IN  IF m = {} THEN FALSE ELSE ~rules[SetMax(m)].inverted

(***************************************************************************)
(* utils/jwt: configuration, signing and verification.                     *)
(***************************************************************************)
ACCESS_TOKEN_EXPIRY == 900

REFRESH_TOKEN_EXPIRY == 604800

\* values the two configured secrets are drawn from
Secrets == {"k1", "k2"}

NoPayload ==
    [userId |-> NoId, email |-> 0, role |-> GUEST, type |-> "none", iat |-> 0, exp |-> 0]

NoToken ==
    [form |-> "none", payload |-> NoPayload, key |-> "", iss |-> "", aud |-> ""]

\* jwt.sign(payload, secret, {issuer, audience})
jwtSign(payload, secret) ==
    [form |-> "jwt", payload |-> payload, key |-> secret,
     iss |-> "blog-backend", aud |-> "blog-users"]

\* jwt.sign(payload, secret, {expiresIn, issuer, audience}) at the instant t:
\* the payload carries no iat, so iat is the clock and exp is iat + expiresIn
jwtSignExpiresIn(payload, secret, expiresIn, t) ==
    jwtSign([payload EXCEPT !.iat = t, !.exp = t + expiresIn], secret)

\* a token whose signature was not made with a configured secret
Forged(token) == [token EXCEPT !.key = "forged"]

\* a variant that gives the access token the lifetime of the refresh token
generateTokensLongAccess(user, conf, t) ==
    LET payload == [userId |-> IdToString(user._id), email |-> user.email,
                    role |-> user.role, type |-> "access",
                    iat |-> t, exp |-> t + REFRESH_TOKEN_EXPIRY]
        refreshPayload == [payload EXCEPT !.type = "refresh",
                                          !.exp = t + REFRESH_TOKEN_EXPIRY]
    IN  [accessToken |-> jwtSign(payload, conf.access),
         refreshToken |-> jwtSign(refreshPayload, conf.refresh),
         expiresIn |-> ACCESS_TOKEN_EXPIRY * 1000]

\* generateTokens(user) at the instant t
generateTokens(user, conf, t) ==
    LET payload == [userId |-> IdToString(user._id), email |-> user.email,
                    role |-> user.role, type |-> "access",
                    iat |-> t, exp |-> t + ACCESS_TOKEN_EXPIRY]
        refreshPayload == [payload EXCEPT !.type = "refresh",
                                          !.exp = t + REFRESH_TOKEN_EXPIRY]
    IN  [accessToken |-> jwtSign(payload, conf.access),
         refreshToken |-> jwtSign(refreshPayload, conf.refresh),
         expiresIn |-> ACCESS_TOKEN_EXPIRY * 1000]

\* a variant that does not look at the expiry
jwtVerifyNoExpiry(token, secret, t) ==
    IF token.form # "jwt" THEN "jwt malformed"
    ELSE IF token.key # secret THEN "invalid signature"
    ELSE IF token.aud # "blog-users" THEN "jwt audience invalid"
    ELSE IF token.iss # "blog-backend" THEN "jwt issuer invalid"
    ELSE "ok"

\* jwt.verify(token, secret, {issuer, audience}) at the instant t: the order of
\* the checks is format, signature, expiry, audience, issuer
jwtVerify(token, secret, t) ==
    IF token.form # "jwt" THEN "jwt malformed"
    ELSE IF token.key # secret THEN "invalid signature"
    ELSE IF t >= token.payload.exp THEN "jwt expired"
    ELSE IF token.aud # "blog-users" THEN "jwt audience invalid"
    ELSE IF token.iss # "blog-backend" THEN "jwt issuer invalid"
    ELSE "ok"

Resolved(payload) ==
    [ok |-> TRUE, name |-> "", message |-> "", statusCode |-> 0, payload |-> payload]

Thrown(name, message, statusCode) ==
    [ok |-> FALSE, name |-> name, message |-> message, statusCode |-> statusCode,
     payload |-> NoPayload]

NoResult == Thrown("", "", 0)

\* a variant that forgets the check of the type discriminator
verifyAccessTokenNoTypeCheck(token, conf, t) ==
    LET v == jwtVerify(token, conf.access, t) IN
    IF v = "ok" THEN Resolved(token.payload)
    ELSE IF v = "jwt expired" THEN Thrown("ForbiddenError", "Access token expired", 403)
    ELSE IF v = "jwt malformed"
         THEN Thrown("ForbiddenError", "Invalid access token: Invalid token format", 403)
    ELSE IF v = "invalid signature"
         THEN Thrown("ForbiddenError", "Invalid access token: Invalid signature", 403)
    ELSE Thrown("Error", "Invalid access token: other", 0)

\* verifyAccessToken(token) at the instant t
verifyAccessToken(token, conf, t) ==
    LET v == jwtVerify(token, conf.access, t) IN
    IF v = "ok" /\ token.payload.type # "access" THEN Thrown("Error", "Invalid token type", 0)
    ELSE IF v = "ok" THEN Resolved(token.payload)
    ELSE IF v = "jwt expired" THEN Thrown("ForbiddenError", "Access token expired", 403)
    ELSE IF v = "jwt malformed"
         THEN Thrown("ForbiddenError", "Invalid access token: Invalid token format", 403)
    ELSE IF v = "invalid signature"
         THEN Thrown("ForbiddenError", "Invalid access token: Invalid signature", 403)
    ELSE Thrown("Error", "Invalid access token: other", 0)

\* verifyRefreshToken(token) at the instant t
verifyRefreshToken(token, conf, t) ==
    LET v == jwtVerify(token, conf.refresh, t) IN
    IF v = "ok" /\ token.payload.type # "refresh" THEN Thrown("Error", "Invalid token type", 0)
    ELSE IF v = "ok" THEN Resolved(token.payload)
    ELSE IF v = "jwt expired" THEN Thrown("Error", "Refresh token expired", 0)
    ELSE IF v = "jwt malformed"
         THEN Thrown("Error", "Invalid refresh token: Invalid token format", 0)
    ELSE IF v = "invalid signature"
         THEN Thrown("Error", "Invalid refresh token: Invalid signature", 0)
    ELSE Thrown("Error", "Invalid refresh token", 0)

\* what refreshAccessToken settles with: the new access token, or the error
Renewed(token) ==
    [ok |-> TRUE, name |-> "", message |-> "", statusCode |-> 0, payload |-> NoPayload,
     accessToken |-> token, expiresIn |-> ACCESS_TOKEN_EXPIRY * 1000]

NotRenewed(e) ==
    [ok |-> FALSE, name |-> e.name, message |-> e.message, statusCode |-> e.statusCode,
     payload |-> NoPayload, accessToken |-> NoToken, expiresIn |-> 0]

\* a variant that signs the new token with the lifetime of the refresh token
refreshAccessTokenLongLived(refreshToken, conf, t) ==
    LET decoded == verifyRefreshToken(refreshToken, conf, t) IN
    IF ~decoded.ok THEN NotRenewed(decoded)
    ELSE LET payload == [userId |-> decoded.payload.userId,
                         email |-> decoded.payload.email,
                         role |-> decoded.payload.role, type |-> "access",
                         iat |-> 0, exp |-> 0]
         IN  Renewed(jwtSignExpiresIn(payload, conf.access, REFRESH_TOKEN_EXPIRY, t))

\* refreshAccessToken(refreshToken) at the instant t: the error of
\* verifyRefreshToken is not caught
refreshAccessToken(refreshToken, conf, t) ==
    LET decoded == verifyRefreshToken(refreshToken, conf, t) IN
    IF ~decoded.ok THEN NotRenewed(decoded)
    ELSE LET payload == [userId |-> decoded.payload.userId,
                         email |-> decoded.payload.email,
                         role |-> decoded.payload.role, type |-> "access",
                         iat |-> 0, exp |-> 0]
         IN  Renewed(jwtSignExpiresIn(payload, conf.access, ACCESS_TOKEN_EXPIRY, t))

\* the instants the clock is observed at: the issue instants and, for each of
\* them, the last second before and the first seconds from either expiry on
Instants ==
    (0..MaxIssueTime)
    \cup {i + e - d : i \in 0..MaxIssueTime,
                      e \in {ACCESS_TOKEN_EXPIRY, REFRESH_TOKEN_EXPIRY}, d \in {0, 1}}

(***************************************************************************)
(* State.                                                                  *)
(***************************************************************************)
VARIABLES
    query,      \* the last question put to the policy engine and its answer
    config,     \* tokenConfig: the access and the refresh secret
    now,        \* the clock, in seconds
    pair,       \* the token pair last issued by generateTokens
    principal,  \* the user generateTokens was last called with
    verdict,    \* the outcome of the last verification call
    users,      \* the Principal Store: id -> stored user
    articles,   \* the stored articles: id -> owner
    req,        \* the request being handled, and where in its chain it is
    comments,   \* the stored comments: id -> article and author
    commentIds, \* the commentIds array of each article
    txn,        \* the session of the comment service and its staged writes
    passwords,  \* the password path of each stored user
    notifications, \* the stored notifications
    io,         \* whether initialize(io) has given the service its socket server
    joined,     \* the sockets in the rooms: << user of the socket, user of the room >>
    call,       \* the call of the notification service in progress, or the last one
    replies,    \* the Reply collection
    registrations, \* the registration requests in flight: where each one is
    accounts    \* the User collection by email: how many documents hold it

\* the state no comment operation touches besides core
rest == << passwords, notifications, io, joined, call, replies, registrations, accounts >>

\* the state of the comment and account side
blog == << comments, commentIds, txn, rest >>

\* the state of the token, policy and request side
core == << query, config, now, pair, principal, verdict, users, articles, req >>

vars == << query, config, now, pair, principal, verdict, users, articles, req, blog >>

\* no call of generateTokens yet
NoPrincipal == [_id |-> NoId, email |-> 0, role |-> GUEST]

NoPair == [accessToken |-> NoToken, refreshToken |-> NoToken, expiresIn |-> 0]

NoVerdict == [fn |-> "none", token |-> NoToken, result |-> NoResult]

NoConfig == [access |-> "", refresh |-> ""]

\* the subject of a request whose guard has not resolved it yet
NoSubject == TypeSubject("")

\* the password path of a document: not loaded, or the stored bcrypt hash
NoPassword == [kind |-> "absent", of |-> ""]

\* the values a client may send as a password
Passwords == {"pw1", "pw2"}

\* bcrypt.hash(password, salt) of the pre-save hook
Hashed(pw) == [kind |-> "bcrypt", of |-> pw]

NoUser ==
    [present |-> FALSE, _id |-> NoId, id |-> NoId, email |-> 0, role |-> GUEST,
     password |-> NoPassword]

\* the data member of a response body
NoData == [user |-> NoUser, accessToken |-> NoToken, refreshToken |-> NoToken,
           expiresIn |-> 0]

NoHeader == [present |-> FALSE, scheme |-> "", token |-> NoToken]

NoResponse ==
    [status |-> 0, message |-> "", action |-> "", subjectName |-> "", subjectId |-> NoId,
     data |-> NoData]

Idle ==
    [pc |-> "idle", route |-> "", step |-> 0, header |-> NoHeader, auth |-> "none",
     token |-> NoToken, decoded |-> NoPayload, user |-> NoUser,
     ability |-> << >>, role |-> "", target |-> 0, subject |-> NoSubject,
     err |-> NoResult, res |-> NoResponse, created |-> 0, caught |-> NoResult,
     requiredRole |-> ""]

NoUsers == [n \in UserIds |-> [exists |-> FALSE, role |-> GUEST]]

NoArticles == [d \in DocIds |-> [exists |-> FALSE, userId |-> NoId]]

NoComments ==
    [c \in CommentIds |->
        [exists |-> FALSE, articleId |-> NoId, userId |-> NoId, replyIds |-> {}]]

NoReply == [exists |-> FALSE, commentId |-> NoId, userId |-> NoId, content |-> ""]

NoReplies == [r \in ReplyIds |-> NoReply]

NoBacklinks == [d \in DocIds |-> {}]

\* no session is open
NoTxn ==
    [pc |-> "none", outcome |-> "", comment |-> 0, articleId |-> 0, userId |-> 0,
     saved |-> FALSE, pushed |-> FALSE]

NoPasswords == [n \in UserIds |-> NoPassword]

\* the email addresses registration requests carry, as typed
Emails == {"a@x.io", "A@x.io", "b@x.io"}

RegistrationIds == 1..MaxRegistrations

NoRegistration == [pc |-> "idle", email |-> "", status |-> 0, code |-> 0]

NoRegistrations == [p \in RegistrationIds |-> NoRegistration]

NoAccounts == [e \in Emails |-> 0]

NoNotification ==
    [exists |-> FALSE, _id |-> NoId, userId |-> NoId, type |-> "", read |-> FALSE,
     createdAt |-> 0, referenceId |-> NoId]

NoNotifications == [i \in NotificationIds |-> NoNotification]

NoCall ==
    [op |-> "none", pc |-> "none", dto |-> NoNotification, record |-> 0,
     pushAttempted |-> FALSE, delivered |-> FALSE, receivers |-> {}, ok |-> FALSE,
     message |-> "",
     returned |-> NoNotification, userId |-> NoId, list |-> << >>]

NoFeed ==
    /\ notifications = NoNotifications /\ io = FALSE /\ joined = {} /\ call = NoCall
    /\ registrations = NoRegistrations /\ accounts = NoAccounts

NoBlog ==
    comments = NoComments /\ commentIds = NoBacklinks /\ txn = NoTxn /\ replies = NoReplies

(***************************************************************************)
(* Policy engine exercised directly: a principal, an action and a subject  *)
(* are drawn, the subject is normalized as the guard does, and the built   *)
(* ability answers.                                                        *)
(***************************************************************************)
Principals == [_id : {Oid(n) : n \in UserIds}, role : UserRole]

\* the email of the user with the id n
EmailOf(n) == n

TypeSubjects == {TypeSubject(n) : n \in SubjectTypeName \cup {"Notification"}}

DocSubjects ==
    {DocSubject(i, o, tag, IdToString(i)) :
        i \in {Oid(n) : n \in DocIds} \cup {Str(n) : n \in DocIds},
        o \in {Oid(n) : n \in UserIds} \cup {Str(n) : n \in UserIds},
        tag \in {"Article", "Comment", "Reply", "User", "absent"}}

NoQuery ==
    [asked |-> FALSE, user |-> [_id |-> NoId, role |-> GUEST], action |-> "read",
     raw |-> TypeSubject("all"), subject |-> TypeSubject("all"),
     rules |-> << >>, allowed |-> FALSE]

InitPolicy ==
    /\ query = NoQuery
    /\ config = NoConfig /\ now = 0 /\ pair = NoPair /\ verdict = NoVerdict
    /\ principal = NoPrincipal
    /\ users = NoUsers /\ articles = NoArticles /\ req = Idle
    /\ NoBlog /\ passwords = NoPasswords /\ NoFeed

\* ability.can(action, subject) on a bare type name
AskType(user, action, subject) ==
    /\ ~query.asked
    /\ subject \in TypeSubjects
    /\ query' = [asked |-> TRUE, user |-> user, action |-> action,
                 raw |-> subject, subject |-> subject,
                 rules |-> defineAbilitiesFor(user),
                 allowed |-> AbilityCan(defineAbilitiesFor(user), action, subject)]
    /\ UNCHANGED << config, now, pair, principal, verdict, users, articles, req, blog >>

\* ability.can(action, normalizeDocument(doc)) on a concrete instance
AskInstance(user, action, doc) ==
    /\ ~query.asked
    /\ doc \in DocSubjects
    /\ query' = [asked |-> TRUE, user |-> user, action |-> action,
                 raw |-> doc, subject |-> normalizeDocument(doc),
                 rules |-> defineAbilitiesFor(user),
                 allowed |-> AbilityCan(defineAbilitiesFor(user), action,
                                        normalizeDocument(doc))]
    /\ UNCHANGED << config, now, pair, principal, verdict, users, articles, req, blog >>

\* the ability is request-scoped: it is dropped when the request is over
DiscardAbility ==
    /\ query.asked
    /\ query' = NoQuery
    /\ UNCHANGED << config, now, pair, principal, verdict, users, articles, req, blog >>

NextPolicy ==
    \/ DiscardAbility
    \/ \E u \in Principals, a \in Actions, s \in TypeSubjects : AskType(u, a, s)
    \/ \E u \in Principals, a \in Actions, d \in DocSubjects : AskInstance(u, a, d)

SpecPolicy == InitPolicy /\ [][NextPolicy]_vars

(***************************************************************************)
(* Token service exercised directly: a pair is issued for a principal, the *)
(* clock advances, and either token of the pair is handed to either        *)
(* verification function.                                                  *)
(***************************************************************************)
InitToken ==
    /\ query = NoQuery
    /\ config \in [access : Secrets, refresh : Secrets]
    /\ now = 0 /\ pair = NoPair /\ verdict = NoVerdict
    /\ principal = NoPrincipal
    /\ users = NoUsers /\ articles = NoArticles /\ req = Idle
    /\ NoBlog /\ passwords = NoPasswords /\ NoFeed

IssuePair(n, role) ==
    /\ now <= MaxIssueTime
    /\ principal' = [_id |-> Oid(n), email |-> EmailOf(n), role |-> role]
    /\ pair' = generateTokens(principal', config, now)
    /\ verdict' = NoVerdict
    /\ UNCHANGED << query, config, now, users, articles, req, blog >>

\* the clock is read by the verification calls only, so it is enough to let
\* it advance while no request is in flight
Tick(t) ==
    /\ req.pc = "idle"
    /\ t \in Instants /\ t > now
    /\ now' = t
    /\ verdict' = NoVerdict
    /\ UNCHANGED << query, config, pair, principal, users, articles, req, blog >>

PairTokens == {pair.accessToken, pair.refreshToken}

VerifyAsAccess(token) ==
    /\ pair # NoPair /\ token \in PairTokens
    /\ verdict' = [fn |-> "verifyAccessToken", token |-> token,
                   result |-> verifyAccessToken(token, config, now)]
    /\ UNCHANGED << query, config, now, pair, principal, users, articles, req, blog >>

VerifyAsRefresh(token) ==
    /\ pair # NoPair /\ token \in PairTokens
    /\ verdict' = [fn |-> "verifyRefreshToken", token |-> token,
                   result |-> verifyRefreshToken(token, config, now)]
    /\ UNCHANGED << query, config, now, pair, principal, users, articles, req, blog >>

\* the tokens a client may present: those of the pair, and the same with a
\* signature that does not verify
Presented == PairTokens \cup {Forged(tok) : tok \in PairTokens}

\* a token of the pair with a bad signature handed to the verification
\* function of its own type
VerifyTampered ==
    /\ pair # NoPair
    /\ \/ verdict' = [fn |-> "verifyAccessToken", token |-> Forged(pair.accessToken),
                      result |-> verifyAccessToken(Forged(pair.accessToken), config, now)]
       \/ verdict' = [fn |-> "verifyRefreshToken", token |-> Forged(pair.refreshToken),
                      result |-> verifyRefreshToken(Forged(pair.refreshToken), config, now)]
    /\ UNCHANGED << query, config, now, pair, principal, users, articles, req, blog >>

\* refreshAccessToken called with a presented token
Renew(token) ==
    /\ pair # NoPair /\ token \in Presented
    /\ verdict' = [fn |-> "refreshAccessToken", token |-> token,
                   result |-> refreshAccessToken(token, config, now)]
    /\ UNCHANGED << query, config, now, pair, principal, users, articles, req, blog >>

NextToken ==
    \/ \E n \in UserIds, r \in UserRole : IssuePair(n, r)
    \/ \E t \in Instants : Tick(t)
    \/ \E tok \in PairTokens : VerifyAsAccess(tok)
    \/ \E tok \in PairTokens : VerifyAsRefresh(tok)
    \/ VerifyTampered
    \/ \E tok \in Presented : Renew(tok)

SpecToken == InitToken /\ [][NextToken]_vars

(***************************************************************************)
(* The HTTP side: one request at a time walks its middleware chain; the    *)
(* store may change between two steps of the chain.                        *)
(***************************************************************************)
Routes ==
    {"PATCH /admin/users/:userId", "PUT /articles/:id", "DELETE /comments/:id",
     "GET /auth/profile", "checkPermission"}

\* the middleware chain mounted on a route; "downstream" stands for the rest
\* of the chain once the guard has called next()
Chain(route) ==
    CASE route = "PATCH /admin/users/:userId"
            -> << "authenticate", "authorize", "validate", "updateUserRole" >>
      [] route = "PUT /articles/:id"
            -> << "authenticate", "checkPermission", "downstream" >>
      [] route = "DELETE /comments/:id"
            -> << "authenticate", "checkPermission", "downstream" >>
      [] route = "GET /auth/profile" -> << "authenticate", "getProfile" >>
      [] route = "authorize" -> << "authorize", "downstream" >>
      [] route = "DELETE /articles/:id"
            -> << "authenticate", "checkPermission", "deleteArticle" >>
      [] route = "PUT /replies/:id" -> << "checkPermission", "updateReply" >>
      [] route = "DELETE /replies/:id" -> << "checkPermission", "deleteReply" >>
      [] OTHER -> << "checkPermission", "downstream" >>

\* the (action, getSubject) a route hands to checkPermission
GuardOf(route) ==
    CASE route = "PUT /articles/:id" -> [action |-> "update", resolver |-> "articleModel.findById"]
      [] route = "DELETE /comments/:id" -> [action |-> "delete", resolver |-> "Comment"]
      [] route = "DELETE /articles/:id" -> [action |-> "delete", resolver |-> "Article"]
      [] route = "PUT /replies/:id" -> [action |-> "update", resolver |-> "Reply"]
      [] route = "DELETE /replies/:id" -> [action |-> "delete", resolver |-> "Reply"]
      [] OTHER -> [action |-> "read", resolver |-> "Article"]

MalformedToken == [NoToken EXCEPT !.form = "malformed"]

Bearer(token) == [present |-> TRUE, scheme |-> "Bearer ", token |-> token]

\* the Authorization headers a client may send
Headers ==
    {NoHeader, Bearer(NoToken), Bearer(MalformedToken)}
    \cup (IF pair = NoPair THEN {}
          ELSE {Bearer(pair.accessToken), Bearer(pair.refreshToken),
                Bearer(Forged(pair.accessToken)),
                [present |-> TRUE, scheme |-> "bearer ", token |-> pair.accessToken]})

\* a variant that accepts any scheme
extractTokenFromHeaderAnyScheme(authHeader) ==
    IF authHeader.present THEN authHeader.token ELSE NoToken

\* extractTokenFromHeader: the text after a case-sensitive 'Bearer '
extractTokenFromHeader(authHeader) ==
    IF authHeader.present /\ authHeader.scheme = "Bearer "
    THEN authHeader.token ELSE NoToken

\* the document a query for the stored user n resolves with: the password
\* path is select: false in the schema, so it is loaded only under '+password'
FoundUser(n, projection) ==
    [present |-> TRUE, _id |-> Oid(n), id |-> NoId, email |-> EmailOf(n),
     role |-> users[n].role,
     password |-> IF projection = "+password" THEN passwords[n] ELSE NoPassword]

\* toObject() / toJSON() with {virtuals: true} and no transform: every loaded
\* path, and the id virtual
toObject(doc) == [doc EXCEPT !.id = IdToString(doc._id)]

\* a variant that loads the password path as well
LoadedUserWithPassword(n) == toObject(FoundUser(n, "+password"))

\* user.toObject() of the document found with select('-password')
LoadedUser(n) == toObject(FoundUser(n, "-password"))

\* UserModel.findById: the stored user with that id, if any
UserStored(id) == id.v \in UserIds /\ users[id.v].exists

Respond(status, message) == [NoResponse EXCEPT !.status = status, !.message = message]

\* next(): control passes to the next middleware of the chain
CallNext(r) ==
    [r EXCEPT !.step = r.step + 1, !.pc = Chain(r.route)[r.step + 1]]

\* res.status(..).json(..): the request is answered and the chain stops
Answer(r, response) == [r EXCEPT !.pc = "responded", !.res = response]

\* next(err): control passes to the error handler
CallNextWithError(r, e) == [r EXCEPT !.pc = "errorHandler", !.err = e]

Init ==
    /\ query = NoQuery /\ verdict = NoVerdict
    /\ config \in [access : {"k1"}, refresh : Secrets]
    /\ now = 0 /\ pair = NoPair /\ principal = NoPrincipal
    /\ users \in [UserIds -> [exists : {TRUE}, role : UserRole]]
    /\ articles = [d \in DocIds |->
                     IF d < MaxDocs
                     THEN [exists |-> TRUE, userId |-> Oid(((d - 1) % MaxUsers) + 1)]
                     ELSE [exists |-> FALSE, userId |-> NoId]]
    /\ req = Idle
    /\ NoBlog /\ passwords = [n \in UserIds |-> Hashed("pw1")] /\ NoFeed

\* login: the tokens of a stored user are issued with the stored role; no
\* step of a request chain reads the pair the client holds, so it is enough
\* to let the client log in between two requests
login(n) ==
    /\ req.pc = "idle"
    /\ now <= MaxIssueTime
    /\ users[n].exists
    /\ principal' = [_id |-> Oid(n), email |-> EmailOf(n), role |-> users[n].role]
    /\ pair' = generateTokens(principal', config, now)
    /\ UNCHANGED << query, config, now, verdict, users, articles, req, blog >>

\* a stored user disappears from the Principal Store (findByIdAndDelete)
RemoveUser(n) ==
    /\ users[n].exists
    /\ users' = [users EXCEPT ![n] = [exists |-> FALSE, role |-> GUEST]]
    /\ passwords' = [passwords EXCEPT ![n] = NoPassword]
    /\ UNCHANGED << query, config, now, pair, principal, verdict, articles, req,
                    comments, commentIds, txn, notifications, io, joined, call, replies,
                    registrations, accounts >>

\* the role a route hands to authorize: requireAdmin on the admin routes
RequiredRole(route) == IF route = "PATCH /admin/users/:userId" THEN ADMIN ELSE ""

StartRequest(route, header) ==
    /\ req.pc = "idle"
    /\ header \in Headers
    /\ req' = [Idle EXCEPT !.route = route, !.step = 1, !.pc = Chain(route)[1],
                           !.header = header, !.requiredRole = RequiredRole(route),
                           !.auth = IF Chain(route)[1] = "authenticate"
                                    THEN "Unauthenticated" ELSE "none"]
    /\ UNCHANGED << query, config, now, pair, principal, verdict, users, articles, blog >>

\* authenticate, up to the await of verifyAccessToken
AuthExtract ==
    /\ req.pc = "authenticate" /\ req.auth = "Unauthenticated"
    /\ LET token == extractTokenFromHeader(req.header) IN
       req' = IF token.form = "none"
              THEN Answer([req EXCEPT !.auth = "Rejected"],
                          Respond(401, "Access token is required"))
              ELSE [req EXCEPT !.auth = "TokenExtracted", !.token = token]
    /\ UNCHANGED << query, config, now, pair, principal, verdict, users, articles, blog >>

\* authenticate: verifyAccessToken settles; the catch block answers only the
\* error names TokenExpiredError and JsonWebTokenError, every other error is
\* passed to next(error)
AuthVerify ==
    /\ req.pc = "authenticate" /\ req.auth = "TokenExtracted"
    /\ LET result == verifyAccessToken(req.token, config, now) IN
       req' = IF result.ok
              THEN IF result.payload.userId.t = "none"
                   THEN Answer([req EXCEPT !.auth = "Rejected"],
                               Respond(404, "Invalid access token"))
                   ELSE [req EXCEPT !.auth = "TokenVerified",
                                    !.decoded = result.payload]
              ELSE IF result.name = "TokenExpiredError"
                   THEN Answer([req EXCEPT !.auth = "Rejected"],
                               Respond(401, "Token expired"))
              ELSE IF result.name = "JsonWebTokenError"
                   THEN Answer([req EXCEPT !.auth = "Rejected"],
                               Respond(401, "Invalid access token"))
              ELSE CallNextWithError([req EXCEPT !.auth = "Rejected"], result)
    /\ UNCHANGED << query, config, now, pair, principal, verdict, users, articles, blog >>

\* a variant that forgets to stop after the 401
authenticateLoadedNoReturn(r, found) ==
    CallNext([r EXCEPT !.auth = "Ready",
                       !.user = IF found THEN LoadedUser(r.decoded.userId.v) ELSE NoUser])

\* the tail of authenticate once findById has settled
authenticateLoaded(r, found) ==
    IF ~found
    THEN Answer([r EXCEPT !.auth = "Rejected"], Respond(401, "User not found"))
    ELSE LET user == LoadedUser(r.decoded.userId.v) IN
         CallNext([r EXCEPT !.auth = "Ready", !.user = user,
                            !.ability = defineAbilitiesFor(user)])

\* authenticate: UserModel.findById settles
AuthLoad ==
    /\ req.pc = "authenticate" /\ req.auth = "TokenVerified"
    /\ req' = authenticateLoaded(req, UserStored(req.decoded.userId))
    /\ UNCHANGED << query, config, now, pair, principal, verdict, users, articles, blog >>

\* a variant that lets only the required role itself through
authorizeExactRole(requiredRole, r) ==
    IF ~r.user.present
    THEN Answer(r, Respond(401, "Authentication required"))
    ELSE IF r.user.role # requiredRole
    THEN Answer(r, Respond(403, "Insufficient permissions"))
    ELSE CallNext(r)

\* the middleware authorize(requiredRole) returns
authorize(requiredRole, r) ==
    IF ~r.user.present
    THEN Answer(r, Respond(401, "Authentication required"))
    ELSE IF roleHierarchy[r.user.role] < roleHierarchy[requiredRole]
    THEN Answer(r, Respond(403, "Insufficient permissions"))
    ELSE CallNext(r)

\* authorize(requiredRole) runs: authorize(UserRole.ADMIN) on the admin routes
Authorize ==
    /\ req.pc = "authorize"
    /\ req' = authorize(req.requiredRole, req)
    /\ UNCHANGED << query, config, now, pair, principal, verdict, users, articles, blog >>

\* validate(updateRoleSchema): the body carries a role of the enum, or not
Validate(role) ==
    /\ req.pc = "validate"
    /\ req' = IF role \notin UserRole
              THEN Answer(req, Respond(400, "Validation failed"))
              ELSE CallNext([req EXCEPT !.role = role])
    /\ UNCHANGED << query, config, now, pair, principal, verdict, users, articles, blog >>

\* updateUserRole (controller), up to the await of user.save()
UpdateUserRoleFind(n) ==
    /\ req.pc = "updateUserRole" /\ req.target = 0
    /\ req' = IF ~users[n].exists
              THEN Answer(req, Respond(404, "User not found"))
              ELSE [req EXCEPT !.target = n]
    /\ UNCHANGED << query, config, now, pair, principal, verdict, users, articles, blog >>

\* updateUserRole (controller): user.role = role; await user.save()
UpdateUserRoleSave ==
    /\ req.pc = "updateUserRole" /\ req.target # 0
    /\ IF users[req.target].exists
       THEN /\ users' = [users EXCEPT ![req.target].role = req.role]
            /\ req' = Answer(req, Respond(200, "User role updated successfully"))
       ELSE /\ users' = users
            /\ req' = Answer(req, Respond(500,
                          "Internal server error while updating user role"))
    /\ UNCHANGED << query, config, now, pair, principal, verdict, articles, blog >>

\* getProfile
GetProfile ==
    /\ req.pc = "getProfile"
    /\ req' = IF ~req.user.present
              THEN Answer(req, Respond(401, "Authentication required"))
              ELSE Answer(req, [Respond(200, "Profile retrieved successfully")
                                   EXCEPT !.data.user = req.user])
    /\ UNCHANGED << query, config, now, pair, principal, verdict, users, articles, blog >>

\* a variant without the fallback: an empty object stands for the missing
\* article
ArticleSubjectNoFallback(d) ==
    IF articles[d].exists
    THEN DocSubject(Str(d), IdToString(articles[d].userId), "Article", Str(d))
    ELSE DocSubject(NoId, NoId, "Article", NoId)

\* the resolver of PUT /articles/:id: the stored article as a tagged plain
\* object, or the bare type name when there is none
ArticleSubject(d) ==
    IF articles[d].exists
    THEN DocSubject(Str(d), IdToString(articles[d].userId), "Article", Str(d))
    ELSE TypeSubject("Article")

\* checkPermission, up to the await of getSubject(req); an id that is no
\* ObjectId (0) makes findById throw
GuardResolve(d) ==
    /\ req.pc = "checkPermission" /\ req.subject = NoSubject
    /\ d \in DocIds \cup {0}
    /\ LET g == GuardOf(req.route) IN
       req' = IF ~req.user.present
              THEN Answer(req, Respond(401, "User not authenticated"))
              ELSE IF g.resolver # "articleModel.findById"
              THEN [req EXCEPT !.subject = TypeSubject(g.resolver)]
              ELSE IF d = 0
              THEN CallNextWithError(req, Thrown("CastError", "Cast to ObjectId failed", 0))
              ELSE [req EXCEPT !.subject = ArticleSubject(d), !.target = d]
    /\ UNCHANGED << query, config, now, pair, principal, verdict, users, articles, blog >>

\* a variant that forgets to stop after the 403
guardDecisionFallThrough(r, action) ==
    CallNext(r)

\* the tail of checkPermission once the subject is known
guardDecision(r, action) ==
    LET subject == normalizeDocument(r.subject)
        ability == defineAbilitiesFor(r.user)
        subjectName == IF subject.kind = "string" THEN subject.name
                       ELSE subject.baseModelName
        subjectId == IF subject.kind = "string" THEN NoId
                     ELSE IF subject._id.t # "none" THEN subject.id ELSE NoId
    IN  IF ~AbilityCan(ability, action, subject)
        THEN Answer(r, [status |-> 403, message |-> "You are not allowed to",
                        action |-> action, subjectName |-> subjectName,
                        subjectId |-> subjectId])
        ELSE CallNext(r)

GuardDecide ==
    /\ req.pc = "checkPermission" /\ req.subject # NoSubject
    /\ req' = guardDecision(req, GuardOf(req.route).action)
    /\ UNCHANGED << query, config, now, pair, principal, verdict, users, articles, blog >>

\* the default error handler of the framework: the status code of the error
\* if it carries one, 500 otherwise
ErrorHandler ==
    /\ req.pc = "errorHandler"
    /\ req' = Answer(req, Respond(IF req.err.statusCode >= 400 THEN req.err.statusCode
                                  ELSE 500, req.err.message))
    /\ UNCHANGED << query, config, now, pair, principal, verdict, users, articles, blog >>

\* the request is over
EndRequest ==
    /\ req.pc \in {"responded", "downstream"}
    /\ req' = Idle
    /\ UNCHANGED << query, config, now, pair, principal, verdict, users, articles, blog >>

\* the instants up to the last expiry of an access token; what a refresh
\* token does past its own expiry is exercised on the token service directly
AccessInstants == {t \in Instants : t <= MaxIssueTime + ACCESS_TOKEN_EXPIRY}

Next ==
    \/ \E n \in UserIds : login(n)
    \/ \E n \in UserIds : RemoveUser(n)
    \/ \E t \in AccessInstants : Tick(t)
    \/ \E route \in Routes, h \in Headers : StartRequest(route, h)
    \/ AuthExtract
    \/ AuthVerify
    \/ AuthLoad
    \/ Authorize
    \/ \E role \in UserRole \cup {"superuser"} : Validate(role)
    \/ \E n \in UserIds : UpdateUserRoleFind(n)
    \/ UpdateUserRoleSave
    \/ GetProfile
    \/ \E d \in DocIds \cup {0} : GuardResolve(d)
    \/ GuardDecide
    \/ ErrorHandler
    \/ EndRequest

Spec == Init /\ [][Next]_vars

(***************************************************************************)
(* authorize(requiredRole) exercised directly: it is mounted with each     *)
(* role of the enum behind a request that carries a loaded user or none.   *)
(***************************************************************************)
StartAuthorize(n, requiredRole) ==
    /\ req.pc = "idle"
    /\ n \in UserIds \cup {0}
    /\ n # 0 => users[n].exists
    /\ req' = [Idle EXCEPT !.route = "authorize", !.step = 1, !.pc = "authorize",
                           !.requiredRole = requiredRole,
                           !.user = IF n = 0 THEN NoUser ELSE LoadedUser(n)]
    /\ UNCHANGED << query, config, now, pair, principal, verdict, users, articles, blog >>

NextAuthorize ==
    \/ \E n \in UserIds \cup {0}, role \in UserRole : StartAuthorize(n, role)
    \/ Authorize
    \/ EndRequest

SpecAuthorize == Init /\ [][NextAuthorize]_vars

\* the place of a role in the order Guest < Writer < Editor < Admin
RoleRank(role) ==
    CHOOSE i \in 1..4 : << GUEST, WRITER, EDITOR, ADMIN >>[i] = role

\* C23: authorize(requiredRole) hands the request to the next handler exactly
\* when it carries a principal whose role is the required role or a higher
\* one in the order Guest < Writer < Editor < Admin; without a principal it
\* answers 401 'Authentication required', with a lower role 403 'Insufficient
\* permissions', and in both cases the next handler is not invoked.
C23_AuthorizeByRank ==
    (req.route = "authorize" /\ req.pc # "authorize") =>
        LET enough == req.user.present
                      /\ RoleRank(req.user.role) >= RoleRank(req.requiredRole)
        IN  /\ req.pc \in {"downstream", "responded"}
            /\ req.pc = "downstream" <=> enough
            /\ ~req.user.present =>
                  (req.res.status = 401 /\ req.res.message = "Authentication required")
            /\ (req.user.present /\ ~enough) =>
                  (req.res.status = 403 /\ req.res.message = "Insufficient permissions")

\* an Editor passes authorize(Writer)
C23_Witness ==
    /\ req.route = "authorize" /\ req.pc = "downstream"
    /\ req.user.role = EDITOR /\ req.requiredRole = WRITER

(***************************************************************************)
(* DELETE /articles/:id: authenticate, checkPermission('delete', 'Article') *)
(* and the controller, which hands the id to the article service.          *)
(***************************************************************************)
\* deleteArticle (controller and service): Article.findByIdAndDelete(id) removes
\* the article if it is stored and resolves (also with null); an id that is
\* no ObjectId (0) makes it throw, which the catch answers with 500
deleteArticle(d) ==
    /\ req.pc = "deleteArticle"
    /\ d \in DocIds \cup {0}
    /\ IF d = 0
       THEN /\ req' = Answer(req, Respond(500, "Failed to delete article"))
            /\ articles' = articles
       ELSE /\ req' = Answer([req EXCEPT !.target = d],
                             Respond(200, "Article deleted successfully"))
            /\ articles' = [articles EXCEPT ![d] = [exists |-> FALSE, userId |-> NoId]]
    /\ UNCHANGED << query, config, now, pair, principal, verdict, users, blog >>

NextArticle ==
    \/ \E n \in UserIds : login(n)
    \/ \E h \in Headers : StartRequest("DELETE /articles/:id", h)
    \/ AuthExtract
    \/ AuthVerify
    \/ AuthLoad
    \/ \E d \in DocIds \cup {0} : GuardResolve(d)
    \/ GuardDecide
    \/ \E d \in DocIds \cup {0} : deleteArticle(d)
    \/ ErrorHandler
    \/ EndRequest

SpecArticle == Init /\ [][NextArticle]_vars

\* C15: a DELETE /articles/:id request of an authenticated Guest, Writer or
\* Editor leaves every article stored and, when it is answered, is answered
\* with 403.
C15_OnlyAdminDeletes ==
    [][(/\ req.route = "DELETE /articles/:id"
        /\ req.user.present /\ req.user.role # ADMIN) =>
            /\ articles' = articles
            /\ (req.pc # "responded" /\ req'.pc = "responded") => req'.res.status = 403]_vars

\* an Admin does delete a stored article
C15_AdminDeletes ==
    /\ req.route = "DELETE /articles/:id" /\ req.pc = "responded"
    /\ req.user.role = ADMIN /\ req.res.status = 200 /\ req.target # 0
    /\ ~articles[req.target].exists

(***************************************************************************)
(* The account routes: register, login, profile (behind authenticate) and  *)
(* refresh.  Each controller is one step; the profile route walks its      *)
(* chain as every authenticated route does.                                *)
(***************************************************************************)
InitAccount ==
    /\ query = NoQuery /\ verdict = NoVerdict
    /\ config \in [access : {"k1"}, refresh : Secrets]
    /\ now = 0 /\ pair = NoPair /\ principal = NoPrincipal
    /\ users = NoUsers /\ articles = NoArticles /\ req = Idle
    /\ NoBlog /\ passwords = NoPasswords /\ NoFeed

\* bcrypt.compare(candidatePassword, this.password)
comparePassword(doc, candidatePassword) == doc.password = Hashed(candidatePassword)

\* register: a new Guest whose password the pre-save hook hashes, or 409
register(n, pw) ==
    /\ req.pc = "idle"
    /\ IF users[n].exists
       THEN /\ req' = Answer([Idle EXCEPT !.route = "POST /auth/register"],
                             Respond(409, "User already exists with this email address"))
            /\ UNCHANGED << users, passwords >>
       ELSE /\ users' = [users EXCEPT ![n] = [exists |-> TRUE, role |-> GUEST]]
            /\ passwords' = [passwords EXCEPT ![n] = Hashed(pw)]
            /\ req' = Answer([Idle EXCEPT !.route = "POST /auth/register"],
                             Respond(201, "User registered successfully"))
    /\ UNCHANGED << query, config, now, pair, principal, verdict, articles,
                    comments, commentIds, txn, notifications, io, joined, call, replies,
                    registrations, accounts >>

\* login (controller): findOne({email}).select('+password'), comparePassword,
\* generateTokens, and the body {user, ...tokens}
loginController(n, pw) ==
    /\ req.pc = "idle"
    /\ now <= MaxIssueTime
    /\ LET r == [Idle EXCEPT !.route = "POST /auth/login"] IN
       IF ~users[n].exists \/ ~comparePassword(FoundUser(n, "+password"), pw)
       THEN /\ req' = Answer(r, Respond(401, "Invalid email or password"))
            /\ UNCHANGED << pair, principal >>
       ELSE LET user == FoundUser(n, "+password")
                tokens == generateTokens([_id |-> user._id, email |-> user.email,
                                          role |-> user.role], config, now)
            IN  /\ principal' = [_id |-> user._id, email |-> user.email,
                                 role |-> user.role]
                /\ pair' = tokens
                /\ req' = Answer(r, [Respond(200, "Login successful") EXCEPT
                                       !.data = [user |-> toObject(user),
                                                 accessToken |-> tokens.accessToken,
                                                 refreshToken |-> tokens.refreshToken,
                                                 expiresIn |-> tokens.expiresIn]])
    /\ UNCHANGED << query, config, now, verdict, users, articles, blog >>

\* what a client may send as refreshToken in the body of POST /auth/refresh
RefreshBodies ==
    {NoToken, MalformedToken} \cup (IF pair = NoPair THEN {} ELSE Presented)

\* refreshToken (controller): 400 without a token; the errors of
\* refreshAccessToken and verifyRefreshToken reach the catch, which answers 401
\* for the error names JsonWebTokenError and TokenExpiredError and 500 otherwise
refreshToken(token) ==
    /\ req.pc = "idle"
    /\ token \in RefreshBodies
    /\ LET r == [Idle EXCEPT !.route = "POST /auth/refresh", !.token = token]
           renewed == refreshAccessToken(token, config, now)
           decoded == verifyRefreshToken(token, config, now)
           thrown == IF ~renewed.ok THEN renewed ELSE decoded
       IN  req' =
             IF token = NoToken
             THEN Answer(r, Respond(400, "Refresh token is required"))
             ELSE IF ~renewed.ok \/ ~decoded.ok
             THEN IF thrown.name \in {"JsonWebTokenError", "TokenExpiredError"}
                  THEN Answer(r, Respond(401, "Invalid or expired refresh token"))
                  ELSE Answer(r, Respond(500, "Error refreshing token"))
             ELSE IF ~UserStored(decoded.payload.userId)
             THEN Answer(r, Respond(404, "User not found"))
             ELSE Answer(r, [Respond(200, "Token refreshed successfully") EXCEPT
                               !.data = [NoData EXCEPT
                                           !.accessToken = renewed.accessToken,
                                           !.refreshToken = token,
                                           !.expiresIn = renewed.expiresIn]])
    /\ UNCHANGED << query, config, now, pair, principal, verdict, users, articles, blog >>

NextAccount ==
    \/ \E n \in UserIds, pw \in Passwords : register(n, pw)
    \/ \E n \in UserIds, pw \in Passwords : loginController(n, pw)
    \/ \E n \in UserIds : RemoveUser(n)
    \/ \E t \in Instants : Tick(t)
    \/ \E h \in Headers : StartRequest("GET /auth/profile", h)
    \/ AuthExtract
    \/ AuthVerify
    \/ AuthLoad
    \/ GetProfile
    \/ \E tok \in RefreshBodies : refreshToken(tok)
    \/ ErrorHandler
    \/ EndRequest

SpecAccount == InitAccount /\ [][NextAccount]_vars

(***************************************************************************)
(* Properties of the account routes (checked under SpecAccount).           *)
(***************************************************************************)
AccountRoutes ==
    {"POST /auth/register", "POST /auth/login", "GET /auth/profile", "POST /auth/refresh"}

\* C16: the body of no response of register, login, profile or refresh carries
\* the password path of the user, and the user authenticate attaches to the
\* request carries none either.
C16_PasswordNeverSerialized ==
    /\ req.user.password = NoPassword
    /\ (req.pc = "responded" /\ req.route \in AccountRoutes) =>
           req.res.data.user.password = NoPassword

\* the profile route does answer with the user and without the password
C16_ProfileWithoutPassword ==
    /\ req.pc = "responded" /\ req.route = "GET /auth/profile"
    /\ req.res.status = 200 /\ req.res.data.user.present
    /\ req.res.data.user.password = NoPassword

\* the refresh token of the request is not accepted by verifyRefreshToken
InvalidOrExpired(token) == ~verifyRefreshToken(token, config, now).ok

\* C20: POST /auth/refresh with a refresh token that is invalid or expired is
\* answered 401 'Invalid or expired refresh token' and no access token is
\* returned.
C20_InvalidRefreshIs401 ==
    (/\ req.pc = "responded" /\ req.route = "POST /auth/refresh"
     /\ req.token # NoToken /\ InvalidOrExpired(req.token)) =>
        /\ req.res.status = 401
        /\ req.res.message = "Invalid or expired refresh token"
        /\ req.res.data.accessToken = NoToken

\* a valid refresh token is answered with a new access token
C20_Refreshed ==
    /\ req.pc = "responded" /\ req.route = "POST /auth/refresh"
    /\ req.res.status = 200 /\ req.res.data.accessToken.form = "jwt"

(***************************************************************************)
(* The comment service: createComment saves the comment and pushes its id  *)
(* on the parent article's commentIds inside one session transaction.  The *)
(* writes of the session are staged and become visible at the commit.      *)
(***************************************************************************)
InitComment ==
    /\ query = NoQuery /\ verdict = NoVerdict /\ config = NoConfig
    /\ now = 0 /\ pair = NoPair /\ principal = NoPrincipal
    /\ users = [n \in UserIds |-> [exists |-> TRUE, role |-> GUEST]]
    /\ articles = [d \in DocIds |->
                     IF d < MaxDocs
                     THEN [exists |-> TRUE, userId |-> Oid(((d - 1) % MaxUsers) + 1)]
                     ELSE [exists |-> FALSE, userId |-> NoId]]
    /\ req = Idle
    /\ NoBlog /\ passwords = [n \in UserIds |-> Hashed("pw1")] /\ NoFeed

\* the _id of a new Comment document: an id no stored comment has
FreshCommentIds == {c \in CommentIds : ~comments[c].exists}

\* the transaction ends without a commit: nothing it wrote is visible
Aborted(t, outcome) ==
    [t EXCEPT !.pc = "done", !.outcome = outcome, !.saved = FALSE, !.pushed = FALSE]

\* createComment({content, articleId, userId}): startSession, startTransaction
\* and the new Comment document; the article id is any ObjectId
createCommentStart(d, n) ==
    /\ txn.pc \in {"none", "done"}
    /\ FreshCommentIds # {}
    /\ txn' = [NoTxn EXCEPT !.pc = "save", !.articleId = d, !.userId = n,
                            !.comment = SetMin(FreshCommentIds)]
    /\ UNCHANGED << core, comments, commentIds, rest >>

\* await comment.save({session}): staged, or it throws and the catch aborts
createCommentSave(ok) ==
    /\ txn.pc = "save"
    /\ txn' = IF ok THEN [txn EXCEPT !.pc = "push", !.saved = TRUE]
               ELSE Aborted(txn, "failed")
    /\ UNCHANGED << core, comments, commentIds, rest >>

\* await Article.findByIdAndUpdate(articleId, {$push: {commentIds}}, {session}):
\* staged when the article is stored, a null result when it is not, or it
\* throws and the catch aborts
createCommentPush(ok) ==
    /\ txn.pc = "push"
    /\ txn' = IF ~ok THEN Aborted(txn, "failed")
               ELSE [txn EXCEPT !.pc = "commit",
                                !.pushed = articles[txn.articleId].exists]
    /\ UNCHANGED << core, comments, commentIds, rest >>

\* await session.commitTransaction(): the staged writes become visible
\* together, or it throws and the catch aborts
createCommentCommit(ok) ==
    /\ txn.pc = "commit"
    /\ IF ok
       THEN /\ comments' = IF txn.saved
                           THEN [comments EXCEPT ![txn.comment] =
                                    [exists |-> TRUE, articleId |-> Oid(txn.articleId),
                                     userId |-> Oid(txn.userId), replyIds |-> {}]]
                           ELSE comments
            /\ commentIds' = IF txn.pushed
                             THEN [commentIds EXCEPT ![txn.articleId] = @ \cup {txn.comment}]
                             ELSE commentIds
            /\ txn' = [txn EXCEPT !.pc = "done", !.outcome = "committed"]
       ELSE /\ txn' = Aborted(txn, "failed")
            /\ UNCHANGED << comments, commentIds >>
    /\ UNCHANGED << core, rest >>

\* the process stops between two steps of createComment: the store drops the
\* uncommitted transaction
Interrupt ==
    /\ txn.pc \in {"save", "push", "commit"}
    /\ txn' = Aborted(txn, "interrupted")
    /\ UNCHANGED << core, comments, commentIds, rest >>

NextComment ==
    \/ \E d \in DocIds, n \in UserIds : createCommentStart(d, n)
    \/ \E ok \in BOOLEAN : createCommentSave(ok)
    \/ \E ok \in BOOLEAN : createCommentPush(ok)
    \/ \E ok \in BOOLEAN : createCommentCommit(ok)
    \/ Interrupt

SpecComment == InitComment /\ [][NextComment]_vars

(***************************************************************************)
(* Properties of the comment service (checked under SpecComment).          *)
(***************************************************************************)
\* the comment is stored and its id is in the commentIds of its stored article
Linked(c) ==
    /\ comments[c].exists
    /\ comments[c].articleId.v \in DocIds
    /\ articles[comments[c].articleId.v].exists
    /\ c \in commentIds[comments[c].articleId.v]

\* neither the comment nor a backlink to it is visible
Invisible(c) == ~comments[c].exists /\ \A d \in DocIds : c \notin commentIds[d]

\* C14: whatever createComment does (completes, fails, or is interrupted
\* between its two writes), every comment is either stored with its id in the
\* commentIds of its parent article, or neither the comment nor a backlink to
\* it is visible.
C14_AllOrNothing ==
    \A c \in CommentIds : Linked(c) \/ Invisible(c)

\* the two writes do become visible together when the article is stored
C14_Committed ==
    /\ txn.pc = "done" /\ txn.outcome = "committed" /\ Linked(txn.comment)

(***************************************************************************)
(* The notification service: createAndEmitNotification, getNotifications,  *)
(* markNotificationAsSeen, and the rooms of the socket server.             *)
(***************************************************************************)
NotificationType == {"comment", "reply", "system"}

\* the page size of getNotifications when the filter gives none
DefaultLimit == 50

\* the cast of a query value to the ObjectId path it is compared with
CastObjectId(x) == IF x.t = "str" THEN Oid(x.v) ELSE x

\* the filters getNotifications is called with; "undefined", "" and 0 stand
\* for a filter that is not given
Filters ==
    {[read |-> r, type |-> t, startDate |-> d[1], endDate |-> d[2],
      limit |-> l[1], page |-> l[2]] :
        r \in {"undefined", "false"}, t \in {"", "reply"},
        d \in {<< 0, 0 >>, << 2, 0 >>, << 0, 1 >>}, l \in {<< 0, 0 >>, << 1, 2 >>}}

\* a variant whose query is not scoped by the user
SelectedUnscoped(userId, filters) ==
    {i \in NotificationIds :
        /\ notifications[i].exists
        /\ filters.read # "undefined" => notifications[i].read = (filters.read = "true")
        /\ filters.type # "" => notifications[i].type = filters.type
        /\ filters.startDate # 0 => notifications[i].createdAt >= filters.startDate
        /\ filters.endDate # 0 => notifications[i].createdAt <= filters.endDate}

\* the stored notifications the query built from the filters selects
Selected(userId, filters) ==
    {i \in NotificationIds :
        /\ notifications[i].exists
        /\ notifications[i].userId = CastObjectId(userId)
        /\ filters.read # "undefined" => notifications[i].read = (filters.read = "true")
        /\ filters.type # "" => notifications[i].type = filters.type
        /\ filters.startDate # 0 => notifications[i].createdAt >= filters.startDate
        /\ filters.endDate # 0 => notifications[i].createdAt <= filters.endDate}

RECURSIVE SortNewestFirst(_)
\* sort({createdAt: -1})
SortNewestFirst(S) ==
    IF S = {} THEN << >>
    ELSE LET newest == CHOOSE i \in S :
                          \A j \in S : notifications[j].createdAt <= notifications[i].createdAt
         IN  << newest >> \o SortNewestFirst(S \ {newest})

\* skip and limit of the sorted result
Page(sorted, filters) ==
    LET limit == IF filters.limit # 0 THEN filters.limit ELSE DefaultLimit
        skip == ((IF filters.page # 0 THEN filters.page ELSE 1) - 1) * limit
        last == IF Len(sorted) < skip + limit THEN Len(sorted) ELSE skip + limit
    IN  SubSeq(sorted, skip + 1, last)

\* the lean documents mapped to {...notification, userId: new ObjectId(..),
\* referenceId: new ObjectId(..)}
Listed(page) ==
    [k \in 1..Len(page) |->
        [notifications[page[k]] EXCEPT !.userId = CastObjectId(@),
                                       !.referenceId = CastObjectId(@)]]

\* getNotifications(userId, filters)
getNotifications(userId, filters) ==
    Listed(Page(SortNewestFirst(Selected(userId, filters)), filters))

InitNotify ==
    /\ query = NoQuery /\ verdict = NoVerdict /\ config = NoConfig
    /\ now = 0 /\ pair = NoPair /\ principal = NoPrincipal
    /\ users = [n \in UserIds |-> [exists |-> TRUE, role |-> GUEST]]
    /\ articles = NoArticles /\ req = Idle
    /\ NoBlog /\ passwords = NoPasswords /\ NoFeed

\* everything but the state of the notification service
others == << core, comments, commentIds, txn, passwords, replies, registrations, accounts >>

\* initialize(io)
initialize ==
    /\ ~io
    /\ io' = TRUE
    /\ UNCHANGED << others, notifications, joined, call >>

\* the connected socket of user m emits 'join' with the id of user n; the
\* handler takes the id as sent
join(m, n) ==
    /\ io /\ << m, n >> \notin joined
    /\ joined' = joined \cup {<< m, n >>}
    /\ UNCHANGED << others, notifications, io, call >>

\* the socket of user m disconnects and leaves its rooms
disconnect(m) ==
    /\ \E n \in UserIds : << m, n >> \in joined
    /\ joined' = {s \in joined : s[1] # m}
    /\ UNCHANGED << others, notifications, io, call >>

\* a variant of the room lookup that only finds the sockets of the room's user
InRoomOwnOnly(n) == {s[1] : s \in {t \in joined : t[2] = n /\ t[1] = n}}

\* io.to('user_' + n): the users of the sockets in the room of user n
InRoom(n) == {s[1] : s \in {t \in joined : t[2] = n}}

FreeNotificationIds == {i \in NotificationIds : ~notifications[i].exists}

\* createAndEmitNotification(createDto): the notification data is built
createAndEmitStart(n, type, ref) ==
    /\ call.pc \in {"none", "done"}
    /\ FreeNotificationIds # {}
    /\ call' = [NoCall EXCEPT !.op = "createAndEmitNotification", !.pc = "create",
                              !.dto = [NoNotification EXCEPT !.userId = Oid(n),
                                                             !.type = type,
                                                             !.referenceId = ref]]
    /\ UNCHANGED << others, notifications, io, joined >>

\* what the catch block of createAndEmitNotification throws
FailedToCreate(c) ==
    [c EXCEPT !.pc = "done", !.ok = FALSE, !.message = "Failed to create notification",
              !.returned = NoNotification]

\* await Notification.create(notificationData): the record is stored, or the
\* validation (a type outside the enum) or the store fails and the catch throws
createAndEmitCreate(ok) ==
    /\ call.op = "createAndEmitNotification" /\ call.pc = "create"
    /\ IF ok /\ call.dto.type \in NotificationType
       THEN LET i == SetMin(FreeNotificationIds) IN
            /\ notifications' = [notifications EXCEPT ![i] =
                    [call.dto EXCEPT !.exists = TRUE, !._id = Oid(i), !.read = FALSE,
                                     !.createdAt = i]]
            /\ call' = [call EXCEPT !.pc = "emit", !.record = i]
       ELSE /\ call' = FailedToCreate(call)
            /\ UNCHANGED notifications
    /\ UNCHANGED << others, io, joined >>

\* this.emitNotification(notificationToEmit) and the return: without a socket
\* server nothing is emitted; io.to(room).emit reaches the sockets of the room,
\* and if it throws the catch block throws in its turn
createAndEmitReturn(c, threw) ==
    IF io /\ threw THEN FailedToCreate([c EXCEPT !.pushAttempted = TRUE])
    ELSE [c EXCEPT !.pc = "done", !.ok = TRUE, !.pushAttempted = TRUE,
                   !.delivered = io /\ InRoom(notifications[c.record].userId.v) # {},
                   !.receivers = IF io THEN InRoom(notifications[c.record].userId.v) ELSE {},
                   !.returned = [notifications[c.record] EXCEPT
                                    !.userId = CastObjectId(@),
                                    !.referenceId = CastObjectId(@)]]

createAndEmitEmit(threw) ==
    /\ call.op = "createAndEmitNotification" /\ call.pc = "emit"
    /\ threw => io
    /\ call' = createAndEmitReturn(call, threw)
    /\ UNCHANGED << others, notifications, io, joined >>

\* markNotificationAsSeen(id)
markNotificationAsSeen(i) ==
    /\ notifications[i].exists /\ ~notifications[i].read
    /\ notifications' = [notifications EXCEPT ![i].read = TRUE]
    /\ UNCHANGED << others, io, joined, call >>

\* getNotifications called for a user, given as ObjectId or as string
listNotifications(userId, filters) ==
    /\ call.pc \in {"none", "done"}
    /\ call' = [NoCall EXCEPT !.op = "getNotifications", !.pc = "done", !.ok = TRUE,
                              !.userId = userId,
                              !.list = getNotifications(userId, filters)]
    /\ UNCHANGED << others, notifications, io, joined >>

NextNotify ==
    \/ initialize
    \/ \E n \in UserIds : join(n, n)
    \/ \E n \in UserIds : disconnect(n)
    \/ \E n \in UserIds, type \in {"comment", "reply", ""} :
            createAndEmitStart(n, type, Oid(1))
    \/ \E ok \in BOOLEAN : createAndEmitCreate(ok)
    \/ \E threw \in BOOLEAN : createAndEmitEmit(threw)

SpecNotify == InitNotify /\ [][NextNotify]_vars

\* the notifications of a server without sockets, listed and marked as seen
NextFeed ==
    \/ \E n \in UserIds, type \in {"comment", "reply"} :
            createAndEmitStart(n, type, Oid(1))
    \/ createAndEmitCreate(TRUE)
    \/ createAndEmitEmit(FALSE)
    \/ \E i \in NotificationIds : markNotificationAsSeen(i)
    \/ \E n \in UserIds, f \in Filters :
            listNotifications(Oid(n), f) \/ listNotifications(Str(n), f)

SpecFeed == InitNotify /\ [][NextFeed]_vars

\* the sockets of any user join the room of any user while notifications are
\* created and pushed
NextSocket ==
    \/ initialize
    \/ \E m, n \in UserIds : join(m, n)
    \/ \E m \in UserIds : disconnect(m)
    \/ \E n \in UserIds : createAndEmitStart(n, "reply", Oid(1))
    \/ createAndEmitCreate(TRUE)
    \/ createAndEmitEmit(FALSE)

SpecSocket == InitNotify /\ [][NextSocket]_vars

(***************************************************************************)
(* Properties of the notification service (C17 checked under SpecFeed, C18 *)
(* under SpecNotify, C29 under SpecSocket).                                *)
(***************************************************************************)
\* C17: whatever the filters, every notification getNotifications returns for
\* a user is a stored notification whose target is that user.
C17_ListScopedToUser ==
    call.op = "getNotifications" =>
        \A k \in 1..Len(call.list) :
            /\ call.list[k].userId = CastObjectId(call.userId)
            /\ call.list[k]._id.v \in NotificationIds
            /\ notifications[call.list[k]._id.v].userId = CastObjectId(call.userId)

C17_Witness ==
    /\ call.op = "getNotifications" /\ Len(call.list) > 0
    /\ call.list[1].userId = CastObjectId(call.userId)

\* C29: a pushed notification reaches only sockets of the user it is for; no
\* socket of another user receives it.
C29_PushOnlyToTarget ==
    (call.op = "createAndEmitNotification" /\ call.pc = "done" /\ call.ok) =>
        call.receivers \subseteq {notifications[call.record].userId.v}

\* the push reached the socket of the user it is for
C29_DeliveredToTarget ==
    /\ call.op = "createAndEmitNotification" /\ call.pc = "done" /\ call.ok
    /\ notifications[call.record].userId.v \in call.receivers
    /\ \E i \in NotificationIds :
          notifications[i].exists /\ notifications[i].userId # CastObjectId(call.userId)

\* C18: createAndEmitNotification has stored the record before it attempts a
\* push, and whenever the record was stored the call returns it: without a
\* socket server, without a socket in the room of the target, and when the
\* emit throws.
C18_PersistedRecordReturned ==
    call.op = "createAndEmitNotification" =>
        /\ call.pushAttempted =>
              (call.record # 0 /\ notifications[call.record].exists)
        /\ (call.pc = "done" /\ call.record # 0) =>
              /\ call.ok
              /\ call.returned.exists /\ call.returned._id = Oid(call.record)
              /\ call.returned.userId = notifications[call.record].userId

\* the record is returned when no socket server is initialised
C18_ReturnedWithoutChannel ==
    /\ call.op = "createAndEmitNotification" /\ call.pc = "done" /\ ~io
    /\ call.ok /\ call.returned._id = Oid(call.record) /\ ~call.delivered

(***************************************************************************)
(* The controllers that trigger a notification: createComment and          *)
(* createReply, after authenticate, validate and checkPermission have let  *)
(* the request through.                                                    *)
(***************************************************************************)
CREATE_COMMENT == "POST /comments/articles/:articleId"

CREATE_REPLY == "POST /replies/comments/:commentId"

\* the requests of one behaviour are those of one logged-in user
InitTrigger ==
    /\ query = NoQuery /\ verdict = NoVerdict /\ config = NoConfig
    /\ now = 0 /\ pair = NoPair
    /\ principal \in {[NoPrincipal EXCEPT !._id = Oid(n)] : n \in UserIds}
    /\ users = [n \in UserIds |-> [exists |-> TRUE, role |-> GUEST]]
    /\ articles = [d \in DocIds |->
                     IF d < MaxDocs
                     THEN [exists |-> TRUE, userId |-> Oid(((d - 1) % MaxUsers) + 1)]
                     ELSE [exists |-> FALSE, userId |-> NoId]]
    /\ req = Idle
    /\ NoBlog /\ passwords = [n \in UserIds |-> Hashed("pw1")] /\ NoFeed

\* what the two controllers and the services they call leave alone
quiet ==
    << query, config, now, pair, principal, verdict, users, articles, passwords, joined, io,
       registrations, accounts >>

\* res.status(201).json({success: true, data: <the created document>})
Created(r, message) ==
    Answer(r, [Respond(201, message) EXCEPT !.subjectId = Oid(r.created)])

\* a variant without the inner try/catch: an error of the notification part
\* reaches the outer catch
NotificationPropagated(r, e, message) ==
    IF e = NoResult THEN Created(r, message)
    ELSE Answer([r EXCEPT !.caught = e], Respond(500, e.message))

\* the inner try/catch around the notification part: the error is logged and
\* the controller goes on to its success response
NotificationCaught(r, e, message) == Created([r EXCEPT !.caught = e], message)

\* return without a response: the request is never answered
Unanswered(r) == [r EXCEPT !.pc = "unanswered"]

\* createComment (controller): the request of user n for article d arrives
createCommentRequest(n, d) ==
    /\ req.pc = "idle" /\ FreshCommentIds # {}
    /\ req' = [Idle EXCEPT !.pc = "createComment", !.route = CREATE_COMMENT,
                           !.user = LoadedUser(n), !.target = d]
    /\ txn' = NoTxn
    /\ UNCHANGED << quiet, comments, commentIds, replies, notifications, call >>

\* await commentService.createComment({... articleId, userId, content})
createCommentCall ==
    /\ req.pc = "createComment" /\ txn.pc = "none"
    /\ createCommentStart(req.target, req.user._id.v)

\* the service resolved with the comment, or it threw and the outer catch
\* answers 500
createCommentReturn ==
    /\ req.pc = "createComment" /\ txn.pc = "done"
    /\ req' = IF txn.outcome = "committed"
              THEN [req EXCEPT !.pc = "commentNotify", !.created = txn.comment]
              ELSE Answer(req, Respond(500, "Failed to create comment"))
    /\ UNCHANGED << quiet, comments, commentIds, txn, replies, notifications, call >>

\* the notification part of createComment: getCommentById throws, or finds
\* nothing, or returns the comment with userId populated and articleId an
\* ObjectId, whose author is undefined, so reading author._id throws
createCommentNotify(found) ==
    /\ req.pc = "commentNotify"
    /\ req' = IF found /\ ~comments[req.created].exists THEN Unanswered(req)
              ELSE NotificationCaught(req,
                       IF found
                       THEN Thrown("TypeError", "Cannot read properties of undefined", 0)
                       ELSE Thrown("Error", "getCommentById", 0),
                       "Comment created successfully")
    /\ UNCHANGED << quiet, comments, commentIds, txn, replies, notifications, call >>

FreshReplyIds == {r \in ReplyIds : ~replies[r].exists}

\* createReply (controller): the request of user n for comment c arrives
createReplyRequest(n, c) ==
    /\ req.pc = "idle" /\ FreshReplyIds # {} /\ FreeNotificationIds # {}
    /\ req' = [Idle EXCEPT !.pc = "createReply", !.route = CREATE_REPLY,
                           !.user = LoadedUser(n), !.target = c]
    /\ UNCHANGED << quiet, comments, commentIds, txn, replies, notifications, call >>

\* replyService.createReply: await reply.save()
createReplySave(ok) ==
    /\ req.pc = "createReply"
    /\ IF ok
       THEN LET r == SetMin(FreshReplyIds) IN
            /\ replies' = [replies EXCEPT ![r] =
                    [exists |-> TRUE, commentId |-> Oid(req.target), userId |-> req.user._id,
                     content |-> "c1"]]
            /\ req' = [req EXCEPT !.pc = "replyLink", !.created = r]
       ELSE /\ req' = Answer(req, Respond(500, "Error creating reply"))
            /\ UNCHANGED replies
    /\ UNCHANGED << quiet, comments, commentIds, txn, notifications, call >>

\* replyService.createReply: Comment.findByIdAndUpdate(commentId, {$push:
\* {replyIds}}), a null result when the comment is not stored, and the populate
\* of the reply; a throw reaches the outer catch of the controller
createReplyLink(ok) ==
    /\ req.pc = "replyLink"
    /\ IF ok
       THEN /\ comments' = IF comments[req.target].exists
                           THEN [comments EXCEPT ![req.target].replyIds = @ \cup {req.created}]
                           ELSE comments
            /\ req' = [req EXCEPT !.pc = "replyNotify"]
       ELSE /\ req' = Answer(req, Respond(500, "Error creating reply"))
            /\ UNCHANGED comments
    /\ UNCHANGED << quiet, commentIds, txn, replies, notifications, call >>

\* the author the reply controller notifies: the author of the article of the
\* replied comment, undefined when the comment or its article is not stored
commentAuthorUser(r) ==
    LET c == replies[r].commentId.v IN
    IF comments[c].exists /\ comments[c].articleId.v \in DocIds
       /\ articles[comments[c].articleId.v].exists
    THEN articles[comments[c].articleId.v].userId
    ELSE NoId

\* the notification part of createReply up to createAndEmitNotification:
\* getReplyById throws, or finds nothing, or returns the populated reply; no
\* notification for the author's own reply; reading the content of a comment
\* or the _id of an article that is not stored throws
createReplyNotify(found) ==
    /\ req.pc = "replyNotify"
    /\ LET author == commentAuthorUser(req.created)
           message == "Reply created successfully"
       IN  IF ~found
           THEN /\ req' = NotificationCaught(req, Thrown("Error", "getReplyById", 0), message)
                /\ UNCHANGED call
           ELSE IF ~replies[req.created].exists
           THEN /\ req' = Unanswered(req)
                /\ UNCHANGED call
           ELSE IF author = req.user._id
           THEN /\ req' = NotificationCaught(req, NoResult, message)
                /\ UNCHANGED call
           ELSE IF author = NoId
           THEN /\ req' = NotificationCaught(req,
                              Thrown("TypeError", "Cannot read properties of null", 0),
                              message)
                /\ UNCHANGED call
           ELSE /\ req' = [req EXCEPT !.pc = "replyNotifying"]
                /\ call' = [NoCall EXCEPT
                              !.op = "createAndEmitNotification", !.pc = "create",
                              !.dto = [NoNotification EXCEPT
                                          !.userId = author, !.type = "reply",
                                          !.referenceId = replies[req.created].commentId]]
    /\ UNCHANGED << quiet, comments, commentIds, txn, replies, notifications >>

\* createAndEmitNotification resolved or threw; the inner catch logs the error
createReplyNotified ==
    /\ req.pc = "replyNotifying" /\ call.pc = "done"
    /\ req' = NotificationCaught(req,
                  IF call.ok THEN NoResult ELSE Thrown("Error", call.message, 0),
                  "Reply created successfully")
    /\ UNCHANGED << quiet, comments, commentIds, txn, replies, notifications, call >>

NextTrigger ==
    \/ initialize
    \/ \E d \in DocIds : createCommentRequest(principal._id.v, d)
    \/ createCommentCall
    \/ \E ok \in BOOLEAN : createCommentSave(ok)
    \/ \E ok \in BOOLEAN : createCommentPush(ok)
    \/ \E ok \in BOOLEAN : createCommentCommit(ok)
    \/ createCommentReturn
    \/ \E found \in BOOLEAN : createCommentNotify(found)
    \/ \E c \in CommentIds : createReplyRequest(principal._id.v, c)
    \/ \E ok \in BOOLEAN : createReplySave(ok)
    \/ \E ok \in BOOLEAN : createReplyLink(ok)
    \/ \E found \in BOOLEAN : createReplyNotify(found)
    \/ \E ok \in BOOLEAN : createAndEmitCreate(ok)
    \/ \E threw \in BOOLEAN : createAndEmitEmit(threw)
    \/ createReplyNotified
    \/ EndRequest

SpecTrigger == InitTrigger /\ [][NextTrigger]_vars

(***************************************************************************)
(* Properties of the triggering controllers (checked under SpecTrigger).   *)
(***************************************************************************)
\* the document the request created is stored
CreatedStays(r) ==
    /\ r.created # 0
    /\ IF r.route = CREATE_COMMENT THEN comments[r.created].exists
       ELSE replies[r.created].exists

\* C19: once a comment or a reply is created, a failure of the notification
\* part (the lookup, the creation of the notification or its push) leaves the
\* comment or reply stored, and the request is answered 201 with it, never
\* with an error.
C19_NotificationFailureNotPropagated ==
    (req.route \in {CREATE_COMMENT, CREATE_REPLY} /\ req.caught # NoResult) =>
        /\ CreatedStays(req)
        /\ req.pc = "responded"
        /\ req.res.status = 201 /\ req.res.subjectId = Oid(req.created)

\* a reply is answered 201 although the notification was stored and its push threw
C19_Witness ==
    /\ req.route = CREATE_REPLY /\ req.pc = "responded" /\ req.res.status = 201
    /\ req.caught.message = "Failed to create notification"
    /\ call.record # 0 /\ ~call.ok /\ replies[req.created].exists

(***************************************************************************)
(* Properties of the request chain (checked under Spec).                   *)
(***************************************************************************)
Authenticated(route) == Chain(route)[1] = "authenticate"

\* the place of checkPermission in the chain of a guarded route, 0 otherwise
GuardStep(route) ==
    LET c == Chain(route)
        at == {i \in 1..Len(c) : c[i] = "checkPermission"}
    IN  IF at = {} THEN 0 ELSE SetMax(at)

\* the answer of the policy engine for the request at the guard
PolicyAnswer ==
    AbilityCan(defineAbilitiesFor(req.user), GuardOf(req.route).action,
               normalizeDocument(req.subject))

\* C5: whenever the stored role of a principal changes, the actor is an Admin
\* and the new role is strictly higher than the role before the change.
C5_RoleOnlyRaisedByAdmin ==
    [][\A n \in UserIds :
          (users[n].exists /\ users'[n].exists /\ users'[n].role # users[n].role) =>
              /\ req.user.present /\ req.user.role = ADMIN
              /\ roleHierarchy[users'[n].role] > roleHierarchy[users[n].role]]_vars

\* C9: authenticate hands control on only in state Ready, that is after a
\* Bearer token was extracted, verified as an unexpired access token signed
\* with the access secret, and its principal was loaded; a rejected request
\* never gets past authenticate, a request without a token is answered 401
\* 'Access token is required', and one whose verified principal id is not
\* stored is answered 401 'User not found'.
C9_DownstreamOnlyWhenReady ==
    (req.pc # "idle" /\ Authenticated(req.route)) =>
        /\ req.step > 1 =>
              /\ req.auth = "Ready"
              /\ req.header.present /\ req.header.scheme = "Bearer "
              /\ req.token = req.header.token /\ req.token.form = "jwt"
              /\ req.token.key = config.access /\ req.token.payload.type = "access"
              /\ now < req.token.payload.exp
              /\ req.decoded = req.token.payload
              /\ req.user.present /\ IdToString(req.user._id) = req.decoded.userId
        /\ req.auth = "Rejected" =>
              /\ req.step = 1 /\ req.pc \in {"responded", "errorHandler"}
              /\ ~req.user.present
        /\ (req.auth = "Rejected" /\ req.token = NoToken) =>
              /\ req.res.status = 401 /\ req.res.message = "Access token is required"
        /\ (req.auth = "Rejected" /\ req.decoded # NoPayload) =>
              /\ req.res.status = 401 /\ req.res.message = "User not found"
              /\ ~UserStored(req.decoded.userId)
        /\ (req.pc = "responded" /\ req.step = 1) => req.auth = "Rejected"

C9_Witness ==
    /\ Authenticated(req.route) /\ req.auth = "Rejected" /\ req.pc = "responded"
    /\ req.token = pair.accessToken /\ req.decoded = req.token.payload
    /\ req.res.status = 401 /\ req.res.message = "User not found"

\* the guard has finished with the request
GuardDone ==
    /\ req.pc # "idle" /\ GuardStep(req.route) # 0
    /\ \/ req.step > GuardStep(req.route)
       \/ req.step = GuardStep(req.route) /\ req.pc \in {"responded", "errorHandler"}

GuardAnswered401 ==
    /\ req.pc = "responded" /\ req.step = GuardStep(req.route)
    /\ req.res = Respond(401, "User not authenticated")

GuardAnswered403 ==
    /\ req.pc = "responded" /\ req.step = GuardStep(req.route)
    /\ req.res.status = 403 /\ req.res.message = "You are not allowed to"
    /\ req.res.action = GuardOf(req.route).action
    /\ req.res.subjectName = getModelName(normalizeDocument(req.subject))
    /\ req.subject.kind = "object" => req.res.subjectId = normalizeDocument(req.subject)._id

GuardPassed == req.step > GuardStep(req.route)

\* C10 as stated: a request that reached checkPermission ends in exactly one of
\* 401 (no principal), 403 (the policy engine answers false) or the invocation
\* of the route handler (the policy engine answers true).
C10_AsStated ==
    GuardDone =>
        /\ GuardAnswered401 \/ GuardAnswered403 \/ GuardPassed
        /\ GuardAnswered401 <=> ~req.user.present
        /\ GuardAnswered403 <=> (req.user.present /\ ~PolicyAnswer)
        /\ GuardPassed <=> (req.user.present /\ PolicyAnswer)

\* the subject resolver threw: the error went to next(err)
GuardFaulted ==
    /\ req.step = GuardStep(req.route) /\ req.pc \in {"responded", "errorHandler"}
    /\ req.err.name = "CastError"

\* C10 amended: a request that reached checkPermission ends in exactly one of
\* 401 'User not authenticated' (no principal), the hand-over of the error to
\* the error handler (the subject resolver threw, the policy engine is not
\* asked), 403 naming the action, the resource type and the instance id (the
\* policy engine answers false) or the invocation of the next handler (the
\* policy engine answers true).
C10_GuardOutcomes ==
    GuardDone =>
        /\ GuardAnswered401 \/ GuardAnswered403 \/ GuardPassed \/ GuardFaulted
        /\ GuardAnswered401 <=> ~req.user.present
        /\ GuardFaulted => (req.user.present /\ req.subject = NoSubject)
        /\ GuardAnswered403 <=> (req.user.present /\ ~GuardFaulted /\ ~PolicyAnswer)
        /\ GuardPassed <=> (req.user.present /\ ~GuardFaulted /\ PolicyAnswer)

C10_Witness ==
    /\ GuardDone /\ GuardAnswered403
    /\ req.subject.kind = "object" /\ req.res.subjectId = req.subject._id
    /\ req.user.role = WRITER /\ req.res.action = "update"

\* some allow rule of the principal of the request covers the guarded action
\* on the resolved subject: its action is the action or 'manage', its subject
\* the type of the subject or 'all', and its condition, if it has one, holds
\* of the instance (it is not evaluated on a bare type name)
AllowRuleMatches ==
    LET rules == defineAbilitiesFor(req.user)
        action == GuardOf(req.route).action
        subject == normalizeDocument(req.subject)
        type == IF subject.kind = "string" THEN subject.name ELSE subject.baseModelName
    IN  \E i \in 1..Len(rules) :
           /\ ~rules[i].inverted
           /\ rules[i].action \in {action, "manage"}
           /\ rules[i].subject \in {type, "all"}
           /\ (rules[i].conditions.present /\ subject.kind = "object") =>
                 subject.userId = rules[i].conditions.userId

\* C22: when no allow rule matches the principal, action and subject of a
\* request at the guard, the policy engine answers false without an error (the
\* guard answers 403), and the guard hands a request on only if an allow rule
\* matches: a deny never becomes an allow.
C22_DenyByDefault ==
    /\ (GuardDone /\ req.user.present /\ req.subject # NoSubject
          /\ ~AllowRuleMatches) =>
            (GuardAnswered403 /\ req.err = NoResult)
    /\ (GuardDone /\ GuardPassed) =>
            (req.user.present /\ req.subject # NoSubject /\ AllowRuleMatches)

\* a Guest asks to update a stored article: no allow rule matches, 403
C22_Witness ==
    /\ GuardDone /\ GuardAnswered403 /\ ~AllowRuleMatches
    /\ req.user.role = GUEST /\ req.subject.kind = "object"
    /\ MatchingRules(defineAbilitiesFor(req.user), "update",
                     normalizeDocument(req.subject)) = {}

\* the verification of the token of the request failed inside authenticate
VerificationFailed ==
    /\ req.pc # "idle" /\ Authenticated(req.route) /\ req.step = 1
    /\ req.auth = "Rejected" /\ req.token.form # "none" /\ req.decoded = NoPayload

\* C24: a request whose token fails verification is answered 401 by
\* authenticate itself, with 'Access token expired' for an expired token and a
\* message of its own for a malformed, badly signed or wrong-type token; none
\* of these errors is passed to the error handler.
C24_TokenErrorsAnswered401 ==
    VerificationFailed =>
        /\ req.pc = "responded" /\ req.err = NoResult
        /\ req.res.status = 401
        /\ jwtVerify(req.token, config.access, now) = "jwt expired" =>
              req.res.message = "Access token expired"

\* an expired access token ends at the error handler, which answers 403
C24_ExpiredAnswered403 ==
    /\ VerificationFailed /\ req.pc = "responded" /\ req.token = pair.accessToken
    /\ req.err.message = "Access token expired" /\ req.res.status = 403

\* the guard of PUT /articles/:id looked up an id no stored article has
LookupFoundNothing ==
    /\ req.route = "PUT /articles/:id" /\ GuardDone
    /\ req.target # 0 /\ ~articles[req.target].exists

\* C25: when the resolver of the guard finds no article for the id, the guard
\* asks the policy engine about the bare type 'Article' and raises no error;
\* the request gets the decision for the bare type: update on 'Article' is
\* denied to a Guest (403 naming the type, no instance id) and allowed to a
\* Writer, an Editor and an Admin.
C25_FallbackToBareType ==
    LookupFoundNothing =>
        /\ req.subject = TypeSubject("Article")
        /\ req.err = NoResult /\ req.pc # "errorHandler"
        /\ GuardPassed <=> req.user.role \in {WRITER, EDITOR, ADMIN}
        /\ ~GuardPassed =>
              /\ GuardAnswered403
              /\ req.res.subjectName = "Article" /\ req.res.subjectId = NoId

\* a Writer passes the guard for an article that is not stored
C25_Witness ==
    LookupFoundNothing /\ GuardPassed /\ req.user.role = WRITER

\* C21: the step of authenticate that succeeds leaves in the request the
\* principal as stored at that moment (its id, its stored role, no password)
\* and the rule set built for that principal; authorize and the guard decide
\* by that role, whatever role the token was issued with.
C21_StoredPrincipalAttached ==
    [][/\ (req.auth = "TokenVerified" /\ req'.auth = "Ready") =>
             LET n == req.decoded.userId.v IN
             /\ users[n].exists
             /\ req'.user.present /\ req'.user._id = Oid(n)
             /\ req'.user.role = users[n].role
             /\ req'.user.password = NoPassword
             /\ req'.ability = defineAbilitiesFor(
                                  [_id |-> Oid(n), role |-> users[n].role])
       /\ (req.pc = "authorize" /\ req'.pc \notin {"authorize", "responded"}) =>
             req.user.role = ADMIN
       /\ (req.pc = "checkPermission" /\ req.subject # NoSubject
              /\ req'.pc \notin {"checkPermission", "responded"}) =>
             AbilityCan(req.ability, GuardOf(req.route).action,
                        normalizeDocument(req.subject))]_vars

\* a token issued to an Admin is presented after the stored role became
\* Guest: the request is authenticated as a Guest and authorize answers 403
C21_Witness ==
    /\ req.auth = "Ready" /\ req.decoded.role = ADMIN /\ req.user.role = GUEST
    /\ users[req.decoded.userId.v].role = GUEST
    /\ req.route = "PATCH /admin/users/:userId"
    /\ req.pc = "responded" /\ req.res.status = 403

(***************************************************************************)
(* Properties of the token service (checked under SpecToken).              *)
(***************************************************************************)
\* a token of the pair handed to the verification function of the other type
CrossVerified ==
    \/ verdict.fn = "verifyAccessToken" /\ verdict.token.payload.type = "refresh"
    \/ verdict.fn = "verifyRefreshToken" /\ verdict.token.payload.type = "access"

\* C1 as stated: the refresh token handed to verifyAccessToken, and the access
\* token handed to verifyRefreshToken, fail with the token-type-mismatch error
\* and return no payload.
C1_AsStated ==
    CrossVerified =>
        /\ ~verdict.result.ok /\ verdict.result.payload = NoPayload
        /\ verdict.result.message = "Invalid token type"

\* C1 amended: a token of the pair is never accepted by the verification
\* function of the other type and no payload is returned; the failure is the
\* invalid-signature error when the two secrets differ, the expired-token
\* error when they are equal and the token has expired, and the
\* token-type-mismatch error only when they are equal and it has not.
C1_NeverAcceptedAcrossTypes ==
    CrossVerified =>
        /\ ~verdict.result.ok /\ verdict.result.payload = NoPayload
        /\ verdict.result.message =
              IF config.access # config.refresh
              THEN (IF verdict.fn = "verifyAccessToken"
                    THEN "Invalid access token: Invalid signature"
                    ELSE "Invalid refresh token: Invalid signature")
              ELSE IF now >= verdict.token.payload.exp
              THEN (IF verdict.fn = "verifyAccessToken"
                    THEN "Access token expired" ELSE "Refresh token expired")
              ELSE "Invalid token type"

C1_Witness ==
    /\ CrossVerified /\ verdict.fn = "verifyAccessToken"
    /\ config.access = config.refresh /\ now < verdict.token.payload.exp
    /\ verdict.result.message = "Invalid token type"

\* a well-formed token was handed to one of the two verification functions
Verified == verdict.fn \in {"verifyAccessToken", "verifyRefreshToken"}

\* the secret the called verification function checks the signature with
SecretOf(fn) == IF fn = "verifyAccessToken" THEN config.access ELSE config.refresh

ExpiredMessage(fn) ==
    IF fn = "verifyAccessToken" THEN "Access token expired" ELSE "Refresh token expired"

SignatureMessage(fn) ==
    IF fn = "verifyAccessToken" THEN "Invalid access token: Invalid signature"
    ELSE "Invalid refresh token: Invalid signature"

\* C11 as stated: verifying a token whose expiry is in the past fails with the
\* expired-token error whether or not its signature is valid, and yields no
\* payload.
C11_AsStated ==
    (Verified /\ now > verdict.token.payload.exp) =>
        /\ ~verdict.result.ok /\ verdict.result.payload = NoPayload
        /\ verdict.result.message = ExpiredMessage(verdict.fn)

\* C11 amended: verifying a token whose expiry is not in the future never
\* yields a payload; it fails with the expired-token error when its signature
\* verifies against the secret of the called function, and with the
\* invalid-signature error when it does not.
C11_ExpiredNeverAccepted ==
    (Verified /\ now >= verdict.token.payload.exp) =>
        /\ ~verdict.result.ok /\ verdict.result.payload = NoPayload
        /\ verdict.result.message =
              IF verdict.token.key = SecretOf(verdict.fn)
              THEN ExpiredMessage(verdict.fn) ELSE SignatureMessage(verdict.fn)

C11_Witness ==
    /\ verdict.fn = "verifyAccessToken" /\ verdict.token = pair.accessToken
    /\ now >= verdict.token.payload.exp
    /\ ~verdict.result.ok /\ verdict.result.message = "Access token expired"

\* C12: refreshAccessToken given the refresh token of the pair before its
\* expiry returns an access token, signed with the access secret, whose exp
\* minus iat is exactly 900 seconds; given a refresh token at or past its
\* expiry it fails and no access token is issued.
C12_RenewalLifetime ==
    (verdict.fn = "refreshAccessToken" /\ verdict.token = pair.refreshToken) =>
        IF now < verdict.token.payload.exp
        THEN /\ verdict.result.ok
             /\ verdict.result.accessToken.form = "jwt"
             /\ verdict.result.accessToken.key = config.access
             /\ verdict.result.accessToken.payload.type = "access"
             /\ verdict.result.accessToken.payload.userId = verdict.token.payload.userId
             /\ verdict.result.accessToken.payload.exp
                   - verdict.result.accessToken.payload.iat = 900
        ELSE /\ ~verdict.result.ok
             /\ verdict.result.accessToken = NoToken

C12_Witness ==
    /\ verdict.fn = "refreshAccessToken" /\ verdict.token = pair.refreshToken
    /\ now > 0 /\ now < verdict.token.payload.exp
    /\ verdict.result.ok /\ verdict.result.accessToken.payload.iat = now
    /\ verdict.result.accessToken.payload.exp = now + 900

\* the refresh token is past its expiry and the renewal failed
C12_WitnessExpired ==
    /\ verdict.fn = "refreshAccessToken" /\ verdict.token = pair.refreshToken
    /\ now >= verdict.token.payload.exp /\ ~verdict.result.ok

\* C13: verifying the access token generateTokens(p) produced, as an access
\* token and before it expires, succeeds and returns a payload whose userId
\* is the string form of p's id, whose type is 'access' and whose exp minus
\* iat is exactly 900 seconds.
C13_RoundTrip ==
    (/\ verdict.fn = "verifyAccessToken" /\ verdict.token = pair.accessToken
     /\ now < pair.accessToken.payload.iat + ACCESS_TOKEN_EXPIRY) =>
        /\ verdict.result.ok
        /\ principal._id.t = "oid"
        /\ verdict.result.payload.userId = Str(principal._id.v)
        /\ verdict.result.payload.role = principal.role
        /\ verdict.result.payload.type = "access"
        /\ verdict.result.payload.exp - verdict.result.payload.iat = 900

C13_Witness ==
    /\ verdict.fn = "verifyAccessToken" /\ verdict.token = pair.accessToken
    /\ verdict.result.ok /\ principal # NoPrincipal
    /\ verdict.result.payload.userId = Str(principal._id.v)
    /\ now > 0

(***************************************************************************)
(* Properties of the policy engine (checked under SpecPolicy).             *)
(***************************************************************************)
Swap(rules, i, j) ==
    [k \in 1..Len(rules) |->
        IF k = i THEN rules[j] ELSE IF k = j THEN rules[i] ELSE rules[k]]

DenyMatches(rules, action, subject) ==
    \E i \in MatchingRules(rules, action, subject) : rules[i].inverted

\* an allow rule without conditions covers (action, type)
UnconditionedAllow(rules, action, type) ==
    \E i \in 1..Len(rules) :
        /\ ~rules[i].inverted /\ ~rules[i].conditions.present
        /\ rules[i].action = action \/ rules[i].action = "manage"
        /\ rules[i].subject = type \/ rules[i].subject = "all"

\* an allow rule with an ownership condition covers (action, type)
OwnershipAllow(rules, action, type) ==
    \E i \in 1..Len(rules) :
        /\ ~rules[i].inverted /\ rules[i].conditions.present
        /\ rules[i].action = action \/ rules[i].action = "manage"
        /\ rules[i].subject = type \/ rules[i].subject = "all"

\* the type of an instance as the caller tagged it
InstanceType(doc) == IF doc.baseModelName = "absent" THEN "Object" ELSE doc.baseModelName

\* instance.ownerId == principal.id, compared in canonical string form
OwnedByUser(doc, user) == IdToString(doc.userId) = IdToString(user._id)

C3_AsStated ==
    (query.asked /\ query.subject.kind = "string") =>
        (query.allowed <=>
            UnconditionedAllow(query.rules, query.action, getModelName(query.subject)))

\* C3 amended: asked about a bare type name, an ownership-conditioned allow
\* rule matches too (its condition is not evaluated), so the answer is true
\* exactly when some allow rule, conditioned or not, covers the action and
\* the type; every principal passes a guard asking update or delete on
\* 'Comment', only an Admin passes one asking update or delete on 'Reply',
\* and a Writer passes one asking delete on 'Article'.
C3_BareTypeMatchesConditionedRules ==
    (query.asked /\ query.subject.kind = "string") =>
        LET t == getModelName(query.subject) IN
        /\ query.allowed <=>
              \/ UnconditionedAllow(query.rules, query.action, t)
              \/ OwnershipAllow(query.rules, query.action, t)
        /\ (t = "Comment" /\ query.action \in {"update", "delete"}) => query.allowed
        /\ (t = "Reply" /\ query.action \in {"update", "delete"})
               => (query.allowed <=> query.user.role = ADMIN)
        /\ (t = "Article" /\ query.action = "delete")
               => (query.allowed <=> query.user.role # GUEST)

C3_Witness ==
    /\ query.asked /\ query.subject = TypeSubject("Comment")
    /\ query.action = "update" /\ query.user.role = GUEST
    /\ ~UnconditionedAllow(query.rules, "update", "Comment")
    /\ query.allowed

\* C4: can(principal, 'update', instance) is true iff the role grants
\* unconditioned update on the instance's type, or an ownership rule for that
\* type applies and the instance's owner is the principal.
C4_UpdateIffGrantOrOwner ==
    (query.asked /\ query.raw.kind = "object" /\ query.action = "update") =>
        (query.allowed <=>
            \/ UnconditionedAllow(query.rules, "update", InstanceType(query.raw))
            \/ /\ OwnershipAllow(query.rules, "update", InstanceType(query.raw))
               /\ OwnedByUser(query.raw, query.user))

C4_Witness ==
    /\ query.asked /\ query.raw.kind = "object" /\ query.action = "update"
    /\ query.raw.userId.t = "oid" /\ OwnedByUser(query.raw, query.user)
    /\ query.user.role = WRITER /\ query.raw.baseModelName = "Article"
    /\ query.allowed

\* C6: a Guest may delete a Comment instance exactly when the Guest owns it.
C6_GuestDeletesOnlyOwnComment ==
    (/\ query.asked /\ query.user.role = GUEST /\ query.action = "delete"
     /\ query.raw.kind = "object" /\ query.raw.baseModelName = "Comment") =>
        (query.allowed <=> OwnedByUser(query.raw, query.user))

C6_Witness ==
    /\ query.asked /\ query.user.role = GUEST /\ query.action = "delete"
    /\ query.raw.kind = "object" /\ query.raw.baseModelName = "Comment"
    /\ ~OwnedByUser(query.raw, query.user)
    /\ ~query.allowed

\* C7: an Editor is refused delete on the bare type 'User', and is allowed
\* manage on every Article instance whoever owns it.
C7_EditorDenyUserManageArticle ==
    (query.asked /\ query.user.role = EDITOR) =>
        /\ (query.action = "delete" /\ query.subject = TypeSubject("User"))
              => ~query.allowed
        /\ (/\ query.action = "manage" /\ query.raw.kind = "object"
            /\ query.raw.baseModelName = "Article") => query.allowed

C7_Witness ==
    /\ query.asked /\ query.user.role = EDITOR /\ query.action = "manage"
    /\ query.raw.kind = "object" /\ query.raw.baseModelName = "Article"
    /\ ~OwnedByUser(query.raw, query.user)
    /\ query.allowed

\* the explicit deny rules of a rule set, as (action, type) pairs
DenyPairs(rules) ==
    {<< rules[i].action, rules[i].subject >> : i \in {k \in 1..Len(rules) : rules[k].inverted}}

InitRegister ==
    /\ query = NoQuery /\ verdict = NoVerdict
    /\ config \in [access : {"k1"}, refresh : {"k2"}]
    /\ now = 0 /\ pair = NoPair /\ principal = NoPrincipal
    /\ users = NoUsers /\ articles = NoArticles /\ req = Idle
    /\ NoBlog /\ passwords = NoPasswords /\ NoFeed

\* what no registration step touches
outside ==
    << core, comments, commentIds, txn, passwords, notifications, io, joined, call, replies >>

\* z.email().toLowerCase() of registerSchema, and lowercase: true of the schema path
toLowerCase(e) == IF e = "A@x.io" THEN "a@x.io" ELSE e

\* the error code of a write that violates a unique index
DuplicateKey == 11000

\* the save meets no unique index on email
ViolatesUniqueNoIndex(e) == FALSE

\* email: { unique: true }: the save of a second document with a stored email fails
ViolatesUnique(e) == accounts[toLowerCase(e)] > 0

\* a request arrives with an email as typed
registerRequest(p, e) ==
    /\ registrations[p].pc = "idle"
    /\ registrations' = [registrations EXCEPT ![p] = [NoRegistration EXCEPT
                                                        !.pc = "validate", !.email = e]]
    /\ UNCHANGED << accounts, outside >>

\* validate(registerSchema): the body is replaced by the parsed one
registerValidate(p) ==
    /\ registrations[p].pc = "validate"
    /\ registrations' = [registrations EXCEPT ![p].pc = "find",
                                              ![p].email = toLowerCase(@)]
    /\ UNCHANGED << accounts, outside >>

\* const existingUser = await UserModel.findOne({ email }); if found, 409
registerFind(p) ==
    /\ registrations[p].pc = "find"
    /\ registrations' =
          [registrations EXCEPT ![p] =
              IF accounts[toLowerCase(@.email)] > 0
              THEN [@ EXCEPT !.pc = "done", !.status = 409]
              ELSE [@ EXCEPT !.pc = "save"]]
    /\ UNCHANGED << accounts, outside >>

\* await newUser.save(): 201, or the catch branch for code 11000: 409
registerSave(p) ==
    /\ registrations[p].pc = "save"
    /\ IF ViolatesUnique(registrations[p].email)
       THEN /\ registrations' = [registrations EXCEPT ![p].pc = "done", ![p].status = 409,
                                                      ![p].code = DuplicateKey]
            /\ UNCHANGED accounts
       ELSE /\ accounts' = [accounts EXCEPT ![toLowerCase(registrations[p].email)] = @ + 1]
            /\ registrations' = [registrations EXCEPT ![p].pc = "done", ![p].status = 201]
    /\ UNCHANGED outside

\* the response is out; the connection takes the next request
registerEnd(p) ==
    /\ registrations[p].pc = "done"
    /\ registrations' = [registrations EXCEPT ![p] = NoRegistration]
    /\ UNCHANGED << accounts, outside >>

NextRegister ==
    \/ \E p \in RegistrationIds, e \in Emails : registerRequest(p, e)
    \/ \E p \in RegistrationIds : registerValidate(p)
    \/ \E p \in RegistrationIds : registerFind(p)
    \/ \E p \in RegistrationIds : registerSave(p)
    \/ \E p \in RegistrationIds : registerEnd(p)

SpecRegister == InitRegister /\ [][NextRegister]_vars

\* C26: under every interleaving of registration requests no email is held by
\* more than one stored user, and a registration that is answered while its
\* email is stored is answered 409 and stores nothing.
C26_OnePrincipalPerEmail ==
    [][/\ \A e \in Emails : accounts'[e] <= 1
       /\ \A p \in RegistrationIds :
             (/\ registrations[p].pc # "done" /\ registrations'[p].pc = "done"
              /\ accounts[registrations'[p].email] > 0) =>
                 (registrations'[p].status = 409 /\ accounts' = accounts)]_vars

\* two requests for one email both passed the lookup; the second save met the
\* unique index and was answered 409
C26_Witness ==
    \E p, q \in RegistrationIds :
        /\ p # q /\ registrations[p].email = registrations[q].email
        /\ registrations[p].pc = "done" /\ registrations[p].status = 201
        /\ registrations[q].pc = "done" /\ registrations[q].status = 409
        /\ registrations[q].code = DuplicateKey
        /\ accounts[registrations[p].email] = 1

(***************************************************************************)
(* The reply routes: create, update and delete.  The requests of a         *)
(* behaviour are those of one logged-in user of any role; update and       *)
(* delete pass checkPermission first; the two writes of the reply service  *)
(* (the Reply document, the replyIds of its comment) are separate steps,   *)
(* and each may fail.                                                      *)
(***************************************************************************)
UPDATE_REPLY == "PUT /replies/:id"

DELETE_REPLY == "DELETE /replies/:id"

\* the contents a reply is written with
Contents == {"c1", "c2"}

\* the replies stored at the start: none, or one of user 1 on comment 1
StoredReplies ==
    {NoReplies,
     [NoReplies EXCEPT ![1] = [exists |-> TRUE, commentId |-> Oid(1), userId |-> Oid(1),
                               content |-> "c1"]]}

InitReply ==
    /\ query = NoQuery /\ verdict = NoVerdict /\ config = NoConfig
    /\ now = 0 /\ pair = NoPair
    /\ principal \in {[NoPrincipal EXCEPT !._id = Oid(n), !.role = role] :
                         n \in UserIds, role \in UserRole}
    /\ users = [n \in UserIds |->
                  [exists |-> TRUE,
                   role |-> IF Oid(n) = principal._id THEN principal.role ELSE GUEST]]
    /\ articles = [d \in DocIds |->
                     IF d < MaxDocs
                     THEN [exists |-> TRUE, userId |-> Oid(((d - 1) % MaxUsers) + 1)]
                     ELSE [exists |-> FALSE, userId |-> NoId]]
    /\ req = Idle
    /\ replies \in StoredReplies
    /\ comments = [c \in CommentIds |->
                     IF c < MaxComments
                     THEN [exists |-> TRUE, articleId |-> Oid(1), userId |-> Oid(1),
                           replyIds |-> {r \in ReplyIds :
                                           replies[r].exists /\ replies[r].commentId = Oid(c)}]
                     ELSE NoComments[c]]
    /\ commentIds = NoBacklinks /\ txn = NoTxn
    /\ passwords = [n \in UserIds |-> Hashed("pw1")] /\ NoFeed

\* a request for reply r arrives at the guard, authenticate having attached
\* the stored user n
replyRequest(route, n, r) ==
    /\ req.pc = "idle"
    /\ req' = [Idle EXCEPT !.route = route, !.step = 1, !.pc = Chain(route)[1],
                           !.user = LoadedUser(n), !.target = r]
    /\ UNCHANGED << quiet, comments, commentIds, txn, replies, notifications, call >>

\* updateReply (controller and service): Reply.findByIdAndUpdate(id, {content}),
\* 404 when it resolves with null
updateReply(content) ==
    /\ req.pc = "updateReply"
    /\ IF replies[req.target].exists
       THEN /\ replies' = [replies EXCEPT ![req.target].content = content]
            /\ req' = Answer(req, [Respond(200, "") EXCEPT !.subjectId = Oid(req.target)])
       ELSE /\ req' = Answer(req, Respond(404, "Reply not found"))
            /\ UNCHANGED replies
    /\ UNCHANGED << quiet, comments, commentIds, txn, notifications, call >>

\* deleteReply (service): const reply = await Reply.findByIdAndDelete(id); the
\* controller answers 404 when it resolves with null
deleteReplyRemove ==
    /\ req.pc = "deleteReply"
    /\ IF replies[req.target].exists
       THEN /\ replies' = [replies EXCEPT ![req.target] = NoReply]
            /\ req' = [req EXCEPT !.pc = "replyUnlink",
                                  !.subject = TypeSubject("Reply"),
                                  !.created = replies[req.target].commentId.v]
       ELSE /\ req' = Answer(req, Respond(404, "Reply not found"))
            /\ UNCHANGED replies
    /\ UNCHANGED << quiet, comments, commentIds, txn, notifications, call >>

\* deleteReply (service): Comment.findByIdAndUpdate(reply.commentId, {$pull:
\* {replyIds}}), a null result when the comment is not stored.  The controller
\* has no try/catch: when the update rejects, the framework either hands the
\* rejection to the error handler or leaves the request unanswered.
deleteReplyUnlink(outcome) ==
    /\ req.pc = "replyUnlink"
    /\ IF outcome = "resolved"
       THEN /\ comments' = IF req.created \in CommentIds /\ comments[req.created].exists
                           THEN [comments EXCEPT ![req.created].replyIds = @ \ {req.target}]
                           ELSE comments
            /\ req' = Answer(req, [Respond(200, "") EXCEPT !.subjectId = Oid(req.target)])
       ELSE /\ req' = IF outcome = "next(err)"
                      THEN CallNextWithError(req, Thrown("MongoError", "update failed", 0))
                      ELSE Unanswered(req)
            /\ UNCHANGED comments
    /\ UNCHANGED << quiet, commentIds, txn, replies, notifications, call >>

\* the client of a request that is never answered gives up
ClientTimeout ==
    /\ req.pc = "unanswered"
    /\ req' = Idle
    /\ UNCHANGED << quiet, comments, commentIds, txn, replies, notifications, call >>

NextReply ==
    \/ \E c \in CommentIds : createReplyRequest(principal._id.v, c)
    \/ \E ok \in BOOLEAN : createReplySave(ok)
    \/ \E ok \in BOOLEAN : createReplyLink(ok)
    \/ \E found \in BOOLEAN : createReplyNotify(found)
    \/ \E ok \in BOOLEAN : createAndEmitCreate(ok)
    \/ \E threw \in BOOLEAN : createAndEmitEmit(threw)
    \/ createReplyNotified
    \/ \E route \in {UPDATE_REPLY, DELETE_REPLY}, r \in ReplyIds :
          replyRequest(route, principal._id.v, r)
    \/ GuardResolve(0)
    \/ GuardDecide
    \/ \E content \in Contents : updateReply(content)
    \/ deleteReplyRemove
    \/ \E outcome \in {"resolved", "next(err)", "unhandled"} : deleteReplyUnlink(outcome)
    \/ ErrorHandler
    \/ ClientTimeout
    \/ EndRequest

SpecReply == InitReply /\ [][NextReply]_vars

(***************************************************************************)
(* Properties of the reply routes (checked under SpecReply).               *)
(***************************************************************************)
\* the ids of the stored replies whose parent is comment c
RepliesOf(c) == {r \in ReplyIds : replies[r].exists /\ replies[r].commentId = Oid(c)}

\* C27: whenever no reply operation is in progress, the replyIds of every
\* stored comment are exactly the ids of the stored replies whose parent is
\* that comment, also after operations that failed between their two writes.
C27_ReplyIdsConsistent ==
    req.pc = "idle" =>
        \A c \in CommentIds : comments[c].exists => comments[c].replyIds = RepliesOf(c)

\* the principal of the request is the owner of reply r or an Admin
OwnerOrAdmin(r) == req.user.present /\ (req.user.role = ADMIN \/ req.user._id = replies[r].userId)

\* C28: no step of a request whose principal is neither the owner of a reply
\* nor an Admin changes the content of that reply or deletes it.
C28_ReplyWrittenByOwnerOrAdmin ==
    [][\A r \in ReplyIds :
          (replies[r].exists /\ (~replies'[r].exists \/ replies'[r].content # replies[r].content))
              => OwnerOrAdmin(r)]_vars

\* a Guest who does not own the stored reply asked to delete it and was
\* answered 403; the reply is still stored
C28_Witness ==
    /\ req.route = DELETE_REPLY /\ req.pc = "responded" /\ req.res.status = 403
    /\ req.user.role # ADMIN
    /\ replies[req.target].exists /\ replies[req.target].userId # req.user._id

\* an Admin who does not own the reply changed its content
C28_AdminUpdates ==
    /\ req.route = UPDATE_REPLY /\ req.pc = "responded" /\ req.res.status = 200
    /\ req.user.role = ADMIN
    /\ replies[req.target].userId # req.user._id /\ replies[req.target].content = "c2"

(***************************************************************************)
(* The two creating controllers with other requests deleting documents     *)
(* while a handler awaits, under the scheduling of the event loop: every   *)
(* continuation of a handler that is ready to run is run eventually.       *)
(***************************************************************************)
\* deleteComment (service) of another request, committed: the comment is gone
\* and so is its id in the commentIds of its article
deleteCommentElsewhere(c) ==
    /\ comments[c].exists /\ txn.pc \in {"none", "done"}
    /\ comments' = [comments EXCEPT ![c] = NoComments[c]]
    /\ commentIds' = [d \in DOMAIN commentIds |-> commentIds[d] \ {c}]
    /\ UNCHANGED << core, txn, rest >>

\* deleteReply (service) of another request, both writes done
deleteReplyElsewhere(r) ==
    /\ replies[r].exists
    /\ replies' = [replies EXCEPT ![r] = NoReply]
    /\ comments' = [c \in CommentIds |-> [comments[c] EXCEPT !.replyIds = @ \ {r}]]
    /\ UNCHANGED << quiet, commentIds, txn, notifications, call, req >>

\* the continuations of the two handlers and of the services they await
HandlerStep ==
    \/ createCommentCall
    \/ \E ok \in BOOLEAN : createCommentSave(ok)
    \/ \E ok \in BOOLEAN : createCommentPush(ok)
    \/ \E ok \in BOOLEAN : createCommentCommit(ok)
    \/ createCommentReturn
    \/ \E found \in BOOLEAN : createCommentNotify(found)
    \/ \E ok \in BOOLEAN : createReplySave(ok)
    \/ \E ok \in BOOLEAN : createReplyLink(ok)
    \/ \E found \in BOOLEAN : createReplyNotify(found)
    \/ \E ok \in BOOLEAN : createAndEmitCreate(ok)
    \/ \E threw \in BOOLEAN : createAndEmitEmit(threw)
    \/ createReplyNotified

NextLive ==
    \/ initialize
    \/ \E d \in DocIds : createCommentRequest(principal._id.v, d)
    \/ \E c \in CommentIds : createReplyRequest(principal._id.v, c)
    \/ HandlerStep
    \/ \E c \in CommentIds : deleteCommentElsewhere(c)
    \/ \E r \in ReplyIds : deleteReplyElsewhere(r)
    \/ EndRequest

SpecLive == InitTrigger /\ [][NextLive]_vars /\ WF_vars(HandlerStep)

\* the same scheduling without the deleting requests
SpecTriggerFair == SpecTrigger /\ WF_vars(HandlerStep)

\* C30: every request that reaches the createComment or the createReply
\* handler is eventually answered, on every path through the handler.
C30_EventuallyAnswered ==
    (req.pc \in {"createComment", "createReply"}) ~> (req.pc = "responded")

\* the handler returned without a response: the created document was gone
\* when it was read back
C30_ReturnedWithoutResponse == req.pc = "unanswered"

====
